---- MODULE Spec2Model ----
(***************************************************************************)
(* HdrCreationManager (src/src/HdrWizard/HdrCreationManager.cpp) as a      *)
(* state machine.                                                          *)
(*                                                                         *)
(*   Spec      the slots of the manager that receive loader results:       *)
(*             loadFailed / ldrReady / mdrReady / newResult                *)
(*   LoadSpec  loadFiles / removeFile on m_data, with the parallel         *)
(*             QtConcurrent::map section of loadFiles cut into steps       *)
(*   EVSpec    checkEVvalues on the exposure times of a loaded batch       *)
(*   SetEVSpec setEV on a batch with missing exposure times                *)
(*   GhostSpec doAutoAntiGhosting on the float planes of a loaded MDR      *)
(*             batch (comparePatches, copyPatches)                         *)
(*   BlendSpec doAntiGhosting (blend) on 8-bit images and on float planes  *)
(*   ColourSpec rgb2hsl followed by hsl2rgb on one pixel                   *)
(*   AisSpec   align_with_ais and the end of the align_image_stack         *)
(*             processes; AisFairSpec adds the delivery of finished()      *)
(*   CropSpec  the loader slots, then cropLDR / cropMDR / cropAgMasks      *)
(*   ExifSpec  the loader slots with setEV at any moment                   *)
(*                                                                         *)
(* Pixel values and the floats computed from them are exact fractions      *)
(* <<numerator, denominator>>; rounding is not modelled.  The grid of the  *)
(* source has gridSize = 40 cells a side, the grid here has fewer.         *)
(*                                                                         *)
(* Exposure times are floats in the source.  Here a time is an integer     *)
(* number of units of 2^-EvOffset seconds, so the time 2^ev is the integer *)
(* 2^(ev + EvOffset); the sentinel -1 is itself and NaN is a value of its  *)
(* own.  Inputs are whole-stop times (powers of two).                      *)
(***************************************************************************)
EXTENDS Integers, Sequences, FiniteSets, TLC

\* ------------------------------------------------------------------ bounds
\* number of files of the batch handed to the loader threads (fileList.size())
NumFiles == 3
\* image widths and heights range over 1..MaxDim
MaxDim == 2
\* exposure values of the EV specification range over -MaxEV..MaxEV
MaxEV == 11
\* number of exposures of the batch checkEVvalues normalises
NumExposures == 2
\* number of distinct file paths a caller of loadFiles can name
NumPaths == 2
\* longest list of paths handed to one loadFiles call
MaxRequest == 2
\* number of align_with_ais calls made on one manager
MaxProcs == 2

Idx == 0 .. (NumFiles - 1)
Dims == 1 .. MaxDim

\* ------------------------------------------------------- values of the state
\* a QImage* / Array2Df* slot: NULL, or an image of some width and height
NULL == [null |-> TRUE, width |-> 0, height |-> 0, alpha |-> 0]
\* an image with pixel data (opaque)
Image(w, h) == [null |-> FALSE, width |-> w, height |-> h, alpha |-> 255]
\* new QImage(w, h, Format_ARGB32) filled with qRgba(0,0,0,0)
TransparentMask(w, h) == [null |-> FALSE, width |-> w, height |-> h, alpha |-> 0]

\* a signal emitted by a handler
Signal(name, msg, idx, val) == [name |-> name, msg |-> msg, idx |-> idx, val |-> val]

\* the value expotimes[i] holds while the exposure time is unknown
NoExpotime == -1
\* the float NaN, what log2f / exp2f return for the sentinel
NaN == -2

\* 2^EvOffset units make one second; wide enough for every shifted value
EvOffset == 2 * MaxEV - 10

RECURSIVE Pow2(_)
Pow2(n) == IF n = 0 THEN 1 ELSE 2 * Pow2(n - 1)

RECURSIVE FloorLog2(_)
FloorLog2(n) == IF n <= 1 THEN 0 ELSE 1 + FloorLog2(n \div 2)

\* exp2f(ev), in units
exp2f(ev) == Pow2(ev + EvOffset)
\* log2f(t) of a time t > 0 given in units
log2f(t) == FloorLog2(t) - EvOffset

VARIABLES
    \* ---- HdrCreationManager, members written by the loader slots
    inputType,              \* UNKNOWN / LDR / MDR
    m_loadingError,
    m_runningThreads,
    m_processedFiles,
    fromCommandLine,
    ldrImagesList,          \* Idx -> NULL or image
    listmdrR,               \* Idx -> NULL or plane (listmdrG, listmdrB are set with it)
    mdrImagesList,          \* Idx -> NULL or preview image
    antiGhostingMasksList,  \* Idx -> NULL or mask
    expotimes,              \* Idx -> time
    filesLackingExif,       \* sequence of entries, one per file reported without EXIF
    filesToRemove,          \* Idx -> BOOLEAN: a temporary file name is recorded
    \* ---- the loader threads that have not reported yet
    pending,
    \* ---- HdrCreationManager::m_data and a running loadFiles call
    m_data,                 \* sequence of HdrCreationItem
    pc,                     \* "idle" or "map": loadFiles inside QtConcurrent::map
    filenames,              \* the argument of the running call
    tempItems,              \* its local vector of items
    ran,                    \* the items of tempItems on which LoadFile has returned
    canceled,               \* futureWatcher.isCanceled()
    decodable,              \* the paths the frame reader can read
    \* ---- what the last handler was and what it emitted
    lastOp,
    sig,
    \* ---- history: the messages errorWhileLoading has carried so far, and
    \*      m_data as the running loadFiles call found it
    raised,
    m_dataAtCall,
    \* ---- the pixels of the planes listmdrR / listmdrG / listmdrB point to,
    \*      and the locals of the last doAutoAntiGhosting call
    planes,                 \* Idx -> [pixel position -> <<r, g, b>>]
    detection,
    \* ---- the pixels of ldrImagesList (planes then holds 8-bit channels), the
    \*      alpha of every pixel of the masks of antiGhostingMasksList, and the
    \*      doAntiGhosting call made
    masks,                  \* Idx -> [pixel position -> 0 .. 255]
    antiGhosting,
    \* ---- one pixel on its way through rgb2hsl and hsl2rgb
    conversion,
    \* ---- the member ais (0 is NULL, otherwise the number of a process) and
    \*      the QProcess objects align_with_ais has created
    ais,
    processes

slotVars == <<inputType, m_loadingError, m_runningThreads, m_processedFiles,
              fromCommandLine, ldrImagesList, listmdrR, mdrImagesList,
              antiGhostingMasksList, expotimes, filesLackingExif, filesToRemove,
              pending>>
loadVars == <<m_data, pc, filenames, tempItems, ran, canceled, decodable>>
aisVars == <<ais, processes>>
pixelVars == <<planes, detection, masks, antiGhosting, conversion, aisVars>>
vars == <<slotVars, loadVars, lastOp, sig, raised, m_dataAtCall, pixelVars>>

\* everything an arriving item can be stored in
stores == <<ldrImagesList, listmdrR, mdrImagesList, antiGhostingMasksList,
            expotimes, filesLackingExif, filesToRemove>>

\* ------------------------------------------------------------ construction
\* no plane holds pixel data and doAutoAntiGhosting has not run
NoDetection == [run |-> FALSE]
NoBlend == [run |-> FALSE]
NoConversion == [stage |-> "none"]
\* the constructor's ais( NULL ): no alignment process
NoAlignment == ais = 0 /\ processes = <<>>
NoPixels ==
    /\ planes = <<>>
    /\ detection = NoDetection
    /\ masks = <<>>
    /\ antiGhosting = NoBlend
    /\ conversion = NoConversion
    /\ NoAlignment

\* HdrCreationManager::HdrCreationManager, with the per-file lists sized for
\* a batch of NumFiles files and every slot empty
ConstructedSlots ==
    /\ inputType = "UNKNOWN"
    /\ m_loadingError = FALSE
    /\ m_runningThreads = 0
    /\ m_processedFiles = 0
    /\ ldrImagesList = [i \in Idx |-> NULL]
    /\ listmdrR = [i \in Idx |-> NULL]
    /\ mdrImagesList = [i \in Idx |-> NULL]
    /\ antiGhostingMasksList = [i \in Idx |-> NULL]
    /\ expotimes = [i \in Idx |-> NoExpotime]
    /\ filesLackingExif = <<>>
    /\ filesToRemove = [i \in Idx |-> FALSE]

ConstructedData ==
    /\ m_data = <<>>
    /\ pc = "idle"
    /\ filenames = <<>>
    /\ tempItems = <<>>
    /\ ran = {}
    /\ canceled = FALSE

\* ------------------------------------------------------------ loader slots
\* ldrReady / mdrReady: if (m_loadingError) { emit processed(); return; }
AlreadyFailedNever == FALSE
AlreadyFailed == m_loadingError

\* ldrReady: if (inputType == MDR_INPUT_TYPE)
ldrKindMismatchNever == FALSE
ldrKindMismatch == inputType = "MDR"

\* mdrReady: if (inputType == LDR_INPUT_TYPE)
mdrKindMismatchNever == FALSE
mdrKindMismatch == inputType = "LDR"

\* a size check that looks at the first slot only
ldrsHaveSameSizeFirstOnly(currentWidth, currentHeight) ==
    ldrImagesList[0].null
        \/ (ldrImagesList[0].width = currentWidth /\ ldrImagesList[0].height = currentHeight)

ldrsHaveSameSize(currentWidth, currentHeight) ==
    \A i \in Idx :
        ~ldrImagesList[i].null =>
            ~(ldrImagesList[i].width # currentWidth \/ ldrImagesList[i].height # currentHeight)

mdrsHaveSameSize(currentWidth, currentHeight) ==
    \A i \in Idx :
        ~listmdrR[i].null =>
            ~(listmdrR[i].width # currentWidth \/ listmdrR[i].height # currentHeight)

\* a newResult that puts the entry at the head of filesLackingExif
newResultPrepend(index, expotime, renamed) ==
    /\ m_runningThreads' = m_runningThreads - 1
    /\ m_processedFiles' = m_processedFiles + 1
    /\ filesToRemove' = IF renamed THEN [filesToRemove EXCEPT ![index] = TRUE]
                                   ELSE filesToRemove
    /\ expotimes' = [expotimes EXCEPT ![index] = expotime]
    /\ filesLackingExif' = IF expotime = NoExpotime
                             THEN <<index>> \o filesLackingExif
                             ELSE filesLackingExif
    /\ sig' = << Signal("fileLoaded", "", index, expotime),
                 Signal("processed", "", -1, -1) >>

\* newResult(index, expotime, newfname); renamed says newfname # fileList[index]
newResult(index, expotime, renamed) ==
    /\ m_runningThreads' = m_runningThreads - 1
    /\ m_processedFiles' = m_processedFiles + 1
    /\ filesToRemove' = IF renamed THEN [filesToRemove EXCEPT ![index] = TRUE]
                                   ELSE filesToRemove
    /\ expotimes' = [expotimes EXCEPT ![index] = expotime]
    /\ filesLackingExif' = IF expotime = NoExpotime
                             THEN Append(filesLackingExif, index)
                             ELSE filesLackingExif
    /\ sig' = << Signal("fileLoaded", "", index, expotime),
                 Signal("processed", "", -1, -1) >>

loadFailed(index) ==
    /\ index \in pending
    /\ pending' = pending \ {index}
    /\ m_loadingError' = TRUE
    /\ sig' = << Signal("errorWhileLoading", "load", -1, -1) >>
    /\ raised' = raised \cup {"load"}
    /\ lastOp' = "loadFailed"
    /\ UNCHANGED pixelVars
    /\ UNCHANGED m_dataAtCall
    /\ UNCHANGED <<inputType, m_runningThreads, m_processedFiles, fromCommandLine>>
    /\ UNCHANGED stores
    /\ UNCHANGED loadVars

mdrReady(index, w, h, expotime, renamed) ==
    /\ index \in pending
    /\ pending' = pending \ {index}
    /\ lastOp' = "mdrReady"
    /\ UNCHANGED pixelVars
    /\ UNCHANGED m_dataAtCall
    /\ UNCHANGED <<fromCommandLine, ldrImagesList>>
    /\ UNCHANGED loadVars
    /\ IF AlreadyFailed THEN
            /\ sig' = << Signal("processed", "", -1, -1) >>
            /\ UNCHANGED raised
            /\ UNCHANGED <<inputType, m_loadingError, m_runningThreads, m_processedFiles,
                           listmdrR, mdrImagesList, antiGhostingMasksList, expotimes,
                           filesLackingExif, filesToRemove>>
       ELSE IF mdrKindMismatch THEN
            /\ m_loadingError' = TRUE
            /\ sig' = << Signal("errorWhileLoading", "type", -1, -1) >>
            /\ raised' = raised \cup {"type"}
            /\ UNCHANGED <<inputType, m_runningThreads, m_processedFiles,
                           listmdrR, mdrImagesList, antiGhostingMasksList, expotimes,
                           filesLackingExif, filesToRemove>>
       ELSE IF ~mdrsHaveSameSize(w, h) THEN
            /\ inputType' = "MDR"
            /\ m_loadingError' = TRUE
            /\ sig' = << Signal("errorWhileLoading", "size", -1, -1) >>
            /\ raised' = raised \cup {"size"}
            /\ UNCHANGED <<m_runningThreads, m_processedFiles,
                           listmdrR, mdrImagesList, antiGhostingMasksList, expotimes,
                           filesLackingExif, filesToRemove>>
       ELSE
            /\ inputType' = "MDR"
            /\ UNCHANGED m_loadingError
            /\ mdrImagesList' = IF ~fromCommandLine
                                  THEN [mdrImagesList EXCEPT ![index] = Image(w, h)]
                                  ELSE mdrImagesList
            /\ antiGhostingMasksList' =
                    IF ~fromCommandLine
                      THEN [antiGhostingMasksList EXCEPT ![index] = TransparentMask(w, h)]
                      ELSE antiGhostingMasksList
            /\ listmdrR' = [listmdrR EXCEPT ![index] = Image(w, h)]
            /\ newResult(index, expotime, renamed)
            /\ UNCHANGED raised

ldrReady(index, w, h, expotime, renamed) ==
    /\ index \in pending
    /\ pending' = pending \ {index}
    /\ lastOp' = "ldrReady"
    /\ UNCHANGED pixelVars
    /\ UNCHANGED m_dataAtCall
    /\ UNCHANGED <<fromCommandLine, listmdrR, mdrImagesList>>
    /\ UNCHANGED loadVars
    /\ IF AlreadyFailed THEN
            /\ sig' = << Signal("processed", "", -1, -1) >>
            /\ UNCHANGED raised
            /\ UNCHANGED <<inputType, m_loadingError, m_runningThreads, m_processedFiles,
                           ldrImagesList, antiGhostingMasksList, expotimes,
                           filesLackingExif, filesToRemove>>
       ELSE IF ldrKindMismatch THEN
            /\ m_loadingError' = TRUE
            /\ sig' = << Signal("errorWhileLoading", "type", -1, -1) >>
            /\ raised' = raised \cup {"type"}
            /\ UNCHANGED <<inputType, m_runningThreads, m_processedFiles,
                           ldrImagesList, antiGhostingMasksList, expotimes,
                           filesLackingExif, filesToRemove>>
       ELSE IF ~ldrsHaveSameSize(w, h) THEN
            /\ inputType' = "LDR"
            /\ m_loadingError' = TRUE
            /\ sig' = << Signal("errorWhileLoading", "size", -1, -1) >>
            /\ raised' = raised \cup {"size"}
            /\ UNCHANGED <<m_runningThreads, m_processedFiles,
                           ldrImagesList, antiGhostingMasksList, expotimes,
                           filesLackingExif, filesToRemove>>
       ELSE
            /\ inputType' = "LDR"
            /\ UNCHANGED m_loadingError
            /\ ldrImagesList' = [ldrImagesList EXCEPT ![index] = Image(w, h)]
            /\ antiGhostingMasksList' =
                    IF ~fromCommandLine
                      THEN [antiGhostingMasksList EXCEPT ![index] = TransparentMask(w, h)]
                      ELSE antiGhostingMasksList
            /\ newResult(index, expotime, renamed)
            /\ UNCHANGED raised

\* a removal at the other end of the list
removeAtLast(list) == IF Len(list) = 0 THEN list ELSE SubSeq(list, 1, Len(list) - 1)
\* QList::removeAt(0): nothing happens on an empty list
removeAt0(list) == IF Len(list) = 0 THEN list ELSE Tail(list)

setEV(new_ev, image_idx) ==
    /\ filesLackingExif' = IF expotimes[image_idx] = NoExpotime
                             THEN removeAt0(filesLackingExif)
                             ELSE filesLackingExif
    /\ expotimes' = [expotimes EXCEPT ![image_idx] = exp2f(new_ev)]
    /\ sig' = << Signal("expotimeValueChanged", "", image_idx, exp2f(new_ev)) >>
    /\ lastOp' = "setEV"
    /\ UNCHANGED pixelVars
    /\ UNCHANGED <<raised, m_dataAtCall>>
    /\ UNCHANGED <<inputType, m_loadingError, m_runningThreads, m_processedFiles,
                   fromCommandLine, ldrImagesList, listmdrR, mdrImagesList,
                   antiGhostingMasksList, filesToRemove, pending>>
    /\ UNCHANGED loadVars

\* exposure values the loader threads and the user hand to the slots
SlotEVs == {0}
SlotTimes == {NoExpotime} \cup {exp2f(e) : e \in SlotEVs}
\* whether a loader thread reports a file under another name than fileList's:
\* the threads of this batch read the files in place
Renamed == {FALSE}

Init ==
    /\ ConstructedSlots
    /\ ConstructedData
    /\ decodable = {}
    /\ fromCommandLine \in BOOLEAN
    /\ pending = Idx
    /\ lastOp = "init"
    /\ NoPixels
    /\ sig = <<>>
    /\ raised = {}
    /\ m_dataAtCall = <<>>

Next ==
    \/ \E i \in Idx : loadFailed(i)
    \/ \E i \in Idx, w \in Dims, h \in Dims, t \in SlotTimes, r \in Renamed :
            mdrReady(i, w, h, t, r)
    \/ \E i \in Idx, w \in Dims, h \in Dims, t \in SlotTimes, r \in Renamed :
            ldrReady(i, w, h, t, r)

Spec == Init /\ [][Next]_vars

\* the loader slots, and setEV on any file of the batch at any moment
ExifNext ==
    \/ Next
    \/ \E ev \in SlotEVs, i \in Idx : setEV(ev, i)

ExifSpec == Init /\ [][ExifNext]_vars

\* ------------------------------------------------- loadFiles and removeFile
Paths == 1 .. NumPaths
\* the lists of paths a caller can hand to loadFiles
Requests == UNION { [1 .. n -> Paths] : n \in 0 .. MaxRequest }

\* HdrCreationItem(filename): an empty frame and a null QImage
HdrCreationItem(filename) == [filename |-> filename, loaded |-> FALSE]

\* HdrCreationItem::isValid(): the item holds the data LoadFile read
isValid(item) == item.loaded

\* a comparison that never finds the file
checkFileNameNever(item, str) == FALSE
checkFileName(item, str) == item.filename = str

\* find_if(data.begin(), data.end(), bind(&checkFileName, _1, i)) == data.end()
notInserted(data, i) == \A k \in 1 .. Len(data) : ~checkFileName(data[k], i)

\* the first loop of loadFiles: one temporary item per name not found in data
RECURSIVE schedule(_, _)
schedule(data, names) ==
    IF names = <<>> THEN <<>>
    ELSE IF notInserted(data, Head(names))
           THEN <<HdrCreationItem(Head(names))>> \o schedule(data, Tail(names))
           ELSE schedule(data, Tail(names))

\* what LoadFile::operator() leaves in an item: the data of a file the reader
\* can read; a runtime_error of the reader is caught and the item stays as it
\* was constructed
LoadFileResult(item) == [item EXCEPT !.loaded = (item.filename \in decodable)]

\* an insertion loop that does not look at isValid()
RECURSIVE insertAll(_, _)
insertAll(data, items) ==
    IF items = <<>> THEN data
    ELSE insertAll(Append(data, Head(items)), Tail(items))

\* the last loop of loadFiles: push_back of every valid temporary item, in order
RECURSIVE insertValid(_, _)
insertValid(data, items) ==
    IF items = <<>> THEN data
    ELSE insertValid(IF isValid(Head(items)) THEN Append(data, Head(items)) ELSE data,
                     Tail(items))

\* loadFiles up to futureWatcher.setFuture(QtConcurrent::map(...))
loadFilesBegin(names) ==
    /\ pc = "idle"
    /\ pc' = "map"
    /\ filenames' = names
    /\ tempItems' = schedule(m_data, names)
    /\ ran' = {}
    /\ canceled' = FALSE
    /\ lastOp' = "loadFilesBegin"
    /\ UNCHANGED pixelVars
    /\ m_dataAtCall' = m_data
    /\ UNCHANGED raised
    /\ sig' = << Signal("progressStarted", "", -1, -1) >>
    /\ UNCHANGED <<m_data, decodable>>
    /\ UNCHANGED slotVars

\* a LoadFile whose tasks all write the first temporary item
LoadFileShared(k) ==
    /\ pc = "map"
    /\ k \in (1 .. Len(tempItems)) \ ran
    /\ tempItems' = [tempItems EXCEPT ![1] = LoadFileResult(tempItems[k])]
    /\ ran' = ran \cup {k}
    /\ lastOp' = "LoadFile"
    /\ UNCHANGED pixelVars
    /\ UNCHANGED <<raised, m_dataAtCall>>
    /\ sig' = << Signal("progressValueChanged", "", -1, Cardinality(ran) + 1) >>
    /\ UNCHANGED <<m_data, pc, filenames, canceled, decodable>>
    /\ UNCHANGED slotVars

\* LoadFile::operator() on tempItems[k], run by a pool thread
LoadFile(k) ==
    /\ pc = "map"
    /\ k \in (1 .. Len(tempItems)) \ ran
    /\ tempItems' = [tempItems EXCEPT ![k] = LoadFileResult(tempItems[k])]
    /\ ran' = ran \cup {k}
    /\ lastOp' = "LoadFile"
    /\ UNCHANGED pixelVars
    /\ UNCHANGED <<raised, m_dataAtCall>>
    /\ sig' = << Signal("progressValueChanged", "", -1, Cardinality(ran) + 1) >>
    /\ UNCHANGED <<m_data, pc, filenames, canceled, decodable>>
    /\ UNCHANGED slotVars

\* the progressCancel signal, connected to futureWatcher.cancel()
progressCancel ==
    /\ pc = "map"
    /\ ~canceled
    /\ canceled' = TRUE
    /\ lastOp' = "progressCancel"
    /\ UNCHANGED pixelVars
    /\ UNCHANGED <<raised, m_dataAtCall>>
    /\ sig' = <<>>
    /\ UNCHANGED <<m_data, pc, filenames, tempItems, ran, decodable>>
    /\ UNCHANGED slotVars

\* if (futureWatcher.isCanceled()) return; in a version that never returns
isCanceledNever == FALSE
isCanceled == canceled

\* loadFiles from the return of waitForFinished() on: a cancelled map returns
\* with the items that did not start left out, a map that was not cancelled
\* returns when LoadFile has run on every item; the locals of the call end
\* with it
loadFilesEnd ==
    /\ pc = "map"
    /\ canceled \/ ran = 1 .. Len(tempItems)
    /\ pc' = "idle"
    /\ UNCHANGED pixelVars
    /\ IF isCanceled
         THEN /\ lastOp' = "loadFilesCanceled"
              /\ UNCHANGED m_data
              /\ sig' = << Signal("progressFinished", "", -1, -1) >>
         ELSE /\ lastOp' = "loadFilesEnd"
              /\ m_data' = insertValid(m_data, tempItems)
              /\ sig' = << Signal("progressFinished", "", -1, -1),
                           Signal("qDebug", "Read %1 out of %2",
                                  Len(tempItems), Len(filenames)) >>
    /\ m_dataAtCall' = <<>>
    /\ UNCHANGED raised
    /\ filenames' = <<>>
    /\ tempItems' = <<>>
    /\ ran' = {}
    /\ canceled' = FALSE
    /\ UNCHANGED decodable
    /\ UNCHANGED slotVars

removeFile(idx) ==
    /\ pc = "idle"
    /\ idx >= 0
    /\ idx < Len(m_data)
    /\ m_data' = [k \in 1 .. (Len(m_data) - 1) |->
                     IF k <= idx THEN m_data[k] ELSE m_data[k + 1]]
    /\ lastOp' = "removeFile"
    /\ UNCHANGED pixelVars
    /\ UNCHANGED <<raised, m_dataAtCall>>
    /\ sig' = <<>>
    /\ UNCHANGED <<pc, filenames, tempItems, ran, canceled, decodable>>
    /\ UNCHANGED slotVars

LoadInit ==
    /\ ConstructedSlots
    /\ ConstructedData
    /\ decodable \in SUBSET Paths
    /\ fromCommandLine = FALSE
    /\ pending = {}
    /\ lastOp = "init"
    /\ NoPixels
    /\ sig = <<>>
    /\ raised = {}
    /\ m_dataAtCall = <<>>

LoadNext ==
    \/ \E names \in Requests : loadFilesBegin(names)
    \/ \E k \in 1 .. (NumPaths * MaxRequest) : LoadFile(k)
    \/ progressCancel
    \/ loadFilesEnd
    \/ \E idx \in 0 .. (NumPaths * MaxRequest) : removeFile(idx)

LoadSpec == LoadInit /\ [][LoadNext]_vars

\* ------------------------------------------------------------ checkEVvalues
\* fileList.size(): one exposure time per file
fileListSize == Cardinality(DOMAIN expotimes)

\* a time log2f maps to a number: the sentinel -1 and NaN give NaN, and every
\* comparison with NaN is false
isNumber(t) == t > 0

\* the first loop of checkEVvalues, from index i on: max starts at -20
RECURSIVE maxEV(_, _)
maxEV(i, max) ==
    IF i >= fileListSize THEN max
    ELSE maxEV(i + 1, IF isNumber(expotimes[i]) /\ log2f(expotimes[i]) > max
                        THEN log2f(expotimes[i]) ELSE max)

\* the first loop of checkEVvalues, from index i on: min starts at +20
RECURSIVE minEV(_, _)
minEV(i, min) ==
    IF i >= fileListSize THEN min
    ELSE minEV(i + 1, IF isNumber(expotimes[i]) /\ log2f(expotimes[i]) < min
                        THEN log2f(expotimes[i]) ELSE min)

\* a choice of branch without the else-if
evBranchMaxOnly(max, min) == IF max > 10 THEN "max" ELSE "none"
\* a choice of branch that tests the minimum first
evBranchMinFirst(max, min) ==
    IF min < -10 THEN "min" ELSE IF max > 10 THEN "max" ELSE "none"
\* if (max > 10) ... else if (min < -10) ...
evBranch(max, min) == IF max > 10 THEN "max" ELSE IF min < -10 THEN "min" ELSE "none"

\* an offset applied to the out-of-range values only
new_evOutsideOnly(ev_val, offset) ==
    IF ev_val > 10 \/ ev_val < -10 THEN ev_val - offset ELSE ev_val
\* float new_ev = log2f(expotimes[i]) - offset
new_ev(ev_val, offset) == ev_val - offset

\* exp2f(log2f(t) - offset); NaN when log2f(t) is NaN
offsetTime(t, offset) == IF isNumber(t) THEN exp2f(new_ev(log2f(t), offset)) ELSE NaN

checkEVvalues ==
    LET max == maxEV(0, -20)
        min == minEV(0, 20)
        branch == evBranch(max, min)
        offset == IF branch = "max" THEN max - 10 ELSE min + 10
    IN  /\ IF branch = "none"
             THEN /\ UNCHANGED expotimes
                  /\ sig' = <<>>
             ELSE /\ expotimes' = [i \in DOMAIN expotimes |-> offsetTime(expotimes[i], offset)]
                  /\ sig' = [k \in 1 .. fileListSize |->
                               Signal("expotimeValueChanged", "", k - 1,
                                      offsetTime(expotimes[k - 1], offset))]
        /\ lastOp' = "checkEVvalues"
        /\ UNCHANGED pixelVars
        /\ UNCHANGED <<raised, m_dataAtCall>>
        /\ UNCHANGED <<inputType, m_loadingError, m_runningThreads, m_processedFiles,
                       fromCommandLine, ldrImagesList, listmdrR, mdrImagesList,
                       antiGhostingMasksList, filesLackingExif, filesToRemove, pending>>
        /\ UNCHANGED loadVars

\* the exposure values of the files of a batch
EVs == (-MaxEV) .. MaxEV
Exposures == 0 .. (NumExposures - 1)

\* the indices of times that are the sentinel, ascending from index i
RECURSIVE lacking(_, _)
lacking(times, i) ==
    IF i >= NumExposures THEN <<>>
    ELSE IF times[i] = NoExpotime THEN <<i>> \o lacking(times, i + 1)
         ELSE lacking(times, i + 1)

\* a batch of NumExposures LDR files of one size, reported by ldrReady in the
\* order of their indices, with any whole-stop exposure times
EVInit ==
    /\ ConstructedData
    /\ decodable = {}
    /\ inputType = "LDR"
    /\ m_loadingError = FALSE
    /\ m_runningThreads = -NumExposures
    /\ m_processedFiles = NumExposures
    /\ fromCommandLine = FALSE
    /\ ldrImagesList = [i \in Exposures |-> Image(1, 1)]
    /\ listmdrR = [i \in Exposures |-> NULL]
    /\ mdrImagesList = [i \in Exposures |-> NULL]
    /\ antiGhostingMasksList = [i \in Exposures |-> TransparentMask(1, 1)]
    /\ expotimes \in [Exposures -> {NoExpotime} \cup {exp2f(e) : e \in EVs}]
    /\ filesLackingExif = lacking(expotimes, 0)
    /\ filesToRemove = [i \in Exposures |-> FALSE]
    /\ pending = {}
    /\ lastOp = "init"
    /\ NoPixels
    /\ sig = <<>>
    /\ raised = {}
    /\ m_dataAtCall = <<>>

EVNext == checkEVvalues

EVSpec == EVInit /\ [][EVNext]_vars

\* ------------------------------------------------------------------- setEV
\* the exposure values the user enters
UserEVs == {-1, 0, 1, 2}

\* the lists of distinct entries of S, in any order
DistinctSeqs(S) ==
    { q \in UNION { [1 .. n -> S] : n \in 0 .. Cardinality(S) } :
        \A a \in DOMAIN q, b \in DOMAIN q : a # b => q[a] # q[b] }

\* a batch of NumExposures LDR files of one size while the loader threads
\* report: a file that has not been reported holds the initial time -1
\* without an entry in filesLackingExif, a file reported without EXIF data
\* holds -1 with an entry, entries being in the order of the reports
SetEVInit ==
    /\ ConstructedData
    /\ decodable = {}
    /\ m_loadingError = FALSE
    /\ fromCommandLine = FALSE
    /\ pending \in SUBSET Exposures
    /\ inputType = IF pending = Exposures THEN "UNKNOWN" ELSE "LDR"
    /\ m_runningThreads = -Cardinality(Exposures \ pending)
    /\ m_processedFiles = Cardinality(Exposures \ pending)
    /\ ldrImagesList = [i \in Exposures |-> IF i \in pending THEN NULL ELSE Image(1, 1)]
    /\ listmdrR = [i \in Exposures |-> NULL]
    /\ mdrImagesList = [i \in Exposures |-> NULL]
    /\ antiGhostingMasksList =
            [i \in Exposures |-> IF i \in pending THEN NULL ELSE TransparentMask(1, 1)]
    /\ \E noExif \in SUBSET (Exposures \ pending) :
          /\ expotimes = [i \in Exposures |->
                            IF i \in pending \cup noExif THEN NoExpotime ELSE exp2f(0)]
          /\ filesLackingExif \in { q \in DistinctSeqs(noExif) : Len(q) = Cardinality(noExif) }
    /\ filesToRemove = [i \in Exposures |-> FALSE]
    /\ lastOp = "init"
    /\ NoPixels
    /\ sig = <<>>
    /\ raised = {}
    /\ m_dataAtCall = <<>>

SetEVNext == \E ev \in UserEVs, i \in Exposures : setEV(ev, i)

SetEVSpec == SetEVInit /\ [][SetEVNext]_vars

\* ------------------------------------------------------- float arithmetic
\* A float of the anti-ghosting code is an exact fraction <<n, d>> in lowest
\* terms with d > 0; rounding is not modelled.  +infinity is <<1, 0>>,
\* -infinity is <<-1, 0>> and NaN is <<0, 0>>.
RECURSIVE GCD(_, _)
GCD(a, b) == IF b = 0 THEN a ELSE GCD(b, a % b)

Abs(n) == IF n < 0 THEN -n ELSE n

Rat(n, d) ==
    LET g == GCD(Abs(n), Abs(d))
        sgn == IF d < 0 THEN -1 ELSE 1
    IN  IF g = 0 THEN <<0, 0>> ELSE << (sgn * n) \div g, (sgn * d) \div g >>

IsNaN(a) == a = <<0, 0>>

Zero == <<0, 1>>
One == <<1, 1>>
Whole(n) == <<n, 1>>
RAdd(a, b) ==
    IF a[2] = 0 /\ b[2] = 0 THEN (IF a = b THEN a ELSE <<0, 0>>)
    ELSE Rat(a[1] * b[2] + b[1] * a[2], a[2] * b[2])
RSub(a, b) == RAdd(a, << -b[1], b[2] >>)
RMul(a, b) == Rat(a[1] * b[1], a[2] * b[2])
\* a / b; x / 0 is an infinity for x # 0 and 0 / 0 is NaN
RDiv(a, b) == Rat(a[1] * b[2], a[2] * b[1])
\* a < b and a <= b: false when an operand is NaN
RLess(a, b) ==
    /\ ~IsNaN(a)
    /\ ~IsNaN(b)
    /\ IF a[2] = 0 /\ b[2] = 0 THEN a[1] < b[1] ELSE a[1] * b[2] < b[1] * a[2]
RLeq(a, b) ==
    /\ ~IsNaN(a)
    /\ ~IsNaN(b)
    /\ IF a[2] = 0 /\ b[2] = 0 THEN a[1] <= b[1] ELSE a[1] * b[2] <= b[1] * a[2]
RMax(a, b) == IF RLess(a, b) THEN b ELSE a
RMin(a, b) == IF RLess(b, a) THEN b ELSE a
\* (int) a for a >= 0
Trunc(a) == a[1] \div a[2]

\* ------------------------------------------------------------ colour space
\* static const float max_rgb / max_lightness
max_rgb == 65535
max_lightness == 65535

\* rgb2hsl(r, g, b, h, s, l): the three outputs as a record
rgb2hsl(r, g, b) ==
    LET v == RMax(RMax(r, g), b)
        m == RMin(RMin(r, g), b)
        l == RDiv(RAdd(m, v), Whole(2))
        vm == RSub(v, m)
    IN  IF RLeq(l, Zero) THEN [h |-> Zero, s |-> Zero, l |-> l]
        ELSE IF ~RLess(Zero, vm) THEN [h |-> Zero, s |-> vm, l |-> l]
        ELSE
          LET s == RDiv(vm, IF RLeq(l, <<1, 2>>) THEN RAdd(v, m)
                                                 ELSE RSub(RSub(Whole(2), v), m))
              r2 == RDiv(RSub(v, r), vm)
              g2 == RDiv(RSub(v, g), vm)
              b2 == RDiv(RSub(v, b), vm)
              h6 == IF r = v THEN (IF g = m THEN RAdd(Whole(5), b2) ELSE RSub(One, g2))
                    ELSE IF g = v THEN (IF b = m THEN RAdd(One, r2) ELSE RSub(Whole(3), b2))
                    ELSE (IF r = m THEN RAdd(Whole(3), g2) ELSE RSub(Whole(5), r2))
          IN  [h |-> RDiv(h6, Whole(6)), s |-> s, l |-> l]

\* hsl2rgb(h, sl, l, r, g, b): the pixel <<r, g, b>>
hsl2rgb(h, sl, l) ==
    LET v == IF RLeq(l, <<1, 2>>) THEN RMul(l, RAdd(One, sl))
                                  ELSE RSub(RAdd(l, sl), RMul(l, sl))
    IN  IF ~RLess(Zero, v) THEN <<l, l, l>>
        ELSE
          LET m == RSub(RAdd(l, l), v)
              sv == RDiv(RSub(v, m), v)
              h6 == RMul(h, Whole(6))
              sextant == Trunc(h6)
              fract == RSub(h6, Whole(sextant))
              vsf == RMul(RMul(v, sv), fract)
              mid1 == RAdd(m, vsf)
              mid2 == RSub(v, vsf)
          IN  CASE sextant = 0 -> <<v, mid1, m>>
                [] sextant = 1 -> <<mid2, v, m>>
                [] sextant = 2 -> <<m, v, mid1>>
                [] sextant = 3 -> <<m, mid2, v>>
                [] sextant = 4 -> <<mid1, m, v>>
                [] sextant = 5 -> <<v, m, mid2>>
                [] OTHER -> <<l, l, l>>

\* the values of a channel of the pixels converted: negative, 0, below and
\* above 1/2, and above 1
Channels == { <<-1, 1>>, Zero, <<1, 4>>, <<1, 2>>, <<3, 2>>, <<3, 1>> }

\* a call of rgb2hsl on the pixel
rgb2hslCall ==
    /\ conversion.stage = "rgb"
    /\ conversion' = [stage |-> "hsl", c |-> conversion.c,
                      hsl |-> rgb2hsl(conversion.c[1], conversion.c[2], conversion.c[3])]
    /\ lastOp' = "rgb2hsl"
    /\ sig' = <<>>
    /\ UNCHANGED <<planes, detection, masks, antiGhosting, aisVars>>
    /\ UNCHANGED <<raised, m_dataAtCall>>
    /\ UNCHANGED slotVars
    /\ UNCHANGED loadVars

\* a call of hsl2rgb on the outputs of rgb2hsl
hsl2rgbCall ==
    /\ conversion.stage = "hsl"
    /\ conversion' = [stage |-> "back", c |-> conversion.c, hsl |-> conversion.hsl,
                      rgb |-> hsl2rgb(conversion.hsl.h, conversion.hsl.s,
                                      conversion.hsl.l)]
    /\ lastOp' = "hsl2rgb"
    /\ sig' = <<>>
    /\ UNCHANGED <<planes, detection, masks, antiGhosting, aisVars>>
    /\ UNCHANGED <<raised, m_dataAtCall>>
    /\ UNCHANGED slotVars
    /\ UNCHANGED loadVars

\* a constructed manager and one pixel with channels of Channels
ColourInit ==
    /\ ConstructedSlots
    /\ ConstructedData
    /\ decodable = {}
    /\ fromCommandLine = FALSE
    /\ pending = {}
    /\ planes = <<>>
    /\ detection = NoDetection
    /\ masks = <<>>
    /\ antiGhosting = NoBlend
    /\ conversion \in [stage : {"rgb"}, c : Channels \X Channels \X Channels]
    /\ NoAlignment
    /\ lastOp = "init"
    /\ sig = <<>>
    /\ raised = {}
    /\ m_dataAtCall = <<>>

ColourNext == rgb2hslCall \/ hsl2rgbCall

ColourSpec == ColourInit /\ [][ColourNext]_vars

\* ------------------------------------------------------- anti-ghosting (MDR)
\* static const int gridSize: patches is a gridSize x gridSize array of flags;
\* the grid of the source has 40 x 40 cells
gridSize == 2

\* the positions (x, y) of a width x height plane
Pix(width, height) == (0 .. (width - 1)) \X (0 .. (height - 1))
\* R(i): the position of linear index k in rows of width pixels
PosOf(k, width) == << k % width, k \div width >>
\* the indices (i, j) of patches
Cells == (0 .. (gridSize - 1)) \X (0 .. (gridSize - 1))
\* the pixels the loops of comparePatches / copyPatch visit for patch (i, j)
CellPix(i, j, gridX, gridY) ==
    ((i * gridX) .. ((i + 1) * gridX - 1)) \X ((j * gridY) .. ((j + 1) * gridY - 1))

\* logf of a channel value, in units of ln 2: a number n + e * epsilon for a
\* tiny epsilon > 0, minus infinity for logf(0); channel values are 0, whole
\* powers of two and max_rgb = 2^16 - 1
XNum(n, e) == [k |-> "num", n |-> n, e |-> e]
XInf(k) == [k |-> k, n |-> 0, e |-> 0]
logf(c) ==
    IF c = Zero THEN XInf("ninf")
    ELSE IF c = Whole(max_rgb) THEN XNum(16, -1)
    ELSE XNum(FloorLog2(c[1]) - FloorLog2(c[2]), 0)

\* a - b in float arithmetic
XSub(a, b) ==
    IF a.k = "nan" \/ b.k = "nan" THEN XInf("nan")
    ELSE IF a.k = "num" /\ b.k = "num" THEN XNum(a.n - b.n, a.e - b.e)
    ELSE IF a.k = "num" THEN XInf(IF b.k = "ninf" THEN "pinf" ELSE "ninf")
    ELSE IF b.k = "num" THEN a
    ELSE IF a.k = b.k THEN XInf("nan")
    ELSE a

\* a + d for a finite d
XAdd(a, d) == IF a.k = "num" THEN XNum(a.n + d, a.e) ELSE a

\* std::abs(a) >= 0.7f * std::abs(deltaEV)
exceedsOrEquals(a, deltaEV) ==
    IF a.k = "nan" THEN FALSE
    ELSE IF a.k # "num" THEN TRUE
    ELSE 10 * Abs(a.n) >= 7 * Abs(deltaEV)

\* std::abs(a) > 0.7f * std::abs(deltaEV)
exceeds(a, deltaEV) ==
    IF a.k = "nan" THEN FALSE
    ELSE IF a.k # "num" THEN TRUE
    ELSE \/ 10 * Abs(a.n) > 7 * Abs(deltaEV)
         \/ /\ 10 * Abs(a.n) = 7 * Abs(deltaEV)
            /\ \/ a.n > 0 /\ a.e > 0
               \/ a.n < 0 /\ a.e < 0
               \/ a.n = 0 /\ a.e # 0

\* the logRed / logGreen / logBlue entry of one channel of one pixel
logRatio(c1, c2, deltaEV) ==
    IF deltaEV < 0 THEN XAdd(XSub(logf(c1), logf(c2)), -deltaEV)
    ELSE XAdd(XSub(logf(c2), logf(c1)), deltaEV)

\* the pixel is counted by the second loop of comparePatches
outlier(p1, p2, deltaEV) ==
    \E c \in 1 .. 3 : exceeds(logRatio(p1[c], p2[c], deltaEV), deltaEV)

\* a comparison that flags a patch whose fraction is below the threshold
comparePatchesBelow(img1, img2, i, j, gridX, gridY, threshold, deltaEV) ==
    LET count == Cardinality({ p \in CellPix(i, j, gridX, gridY) :
                                 outlier(img1[p], img2[p], deltaEV) })
    IN  IF gridX * gridY = 0 THEN FALSE
        ELSE RLess(Rat(count, gridX * gridY), threshold)

\* comparePatches (Array2Df): count / (gridX*gridY) > threshold; with
\* gridX*gridY = 0 the quotient is 0/0 = NaN and the comparison is false
comparePatches(img1, img2, i, j, gridX, gridY, threshold, deltaEV) ==
    LET count == Cardinality({ p \in CellPix(i, j, gridX, gridY) :
                                 outlier(img1[p], img2[p], deltaEV) })
    IN  IF gridX * gridY = 0 THEN FALSE
        ELSE RLess(threshold, Rat(count, gridX * gridY))

\* the sum of the lightness of the pixels of linear index < n
RECURSIVE lightnessSum(_, _, _)
lightnessSum(img, width, n) ==
    IF n = 0 THEN Zero
    ELSE LET p == img[PosOf(n - 1, width)]
         IN  RAdd(lightnessSum(img, width, n - 1), rgb2hsl(p[1], p[2], p[3]).l)

\* averageLightness(R, G, B)
averageLightness(img, width, height) ==
    RDiv(lightnessSum(img, width, height * width), Whole(width * height))

\* the hue rgb2hsl gives for a pixel
hueOf(p) == rgb2hsl(p[1], p[2], p[3]).h

\* hues[w] at every position: rgb2hsl(listR[w](i), listG[w](i), listB[w](i), ...)
huesOf(list) == [w \in DOMAIN list |-> [pos \in DOMAIN list[w] |-> hueOf(list[w][pos])]]

\* the sum of hues[0 .. n-1] at one position
RECURSIVE hueSum(_, _, _)
hueSum(hues, pos, n) ==
    IF n = 0 THEN Zero ELSE RAdd(hueSum(hues, pos, n - 1), hues[n - 1][pos])

\* hueMean(hues, size)
hueMean(hues, pos, size) == RDiv(hueSum(hues, pos, size), Whole(size))

\* HS after the pixels of linear index < n
RECURSIVE hueSquares(_, _, _, _, _)
hueSquares(hues, k, size, width, n) ==
    IF n = 0 THEN Zero
    ELSE LET pos == PosOf(n - 1, width)
             H == RSub(hueMean(hues, pos, size), hues[k][pos])
         IN  RAdd(hueSquares(hues, k, size, width, n - 1), RMul(H, H))

\* hueSquaredMean(listR, listG, listB, k), on the hues of the list
hueSquaredMean(hues, k, size, width, height) ==
    RDiv(hueSquares(hues, k, size, width, width * height), Whole(width * height))

\* *std::max_element(data, data + n)
RECURSIVE maxElement(_, _)
maxElement(data, n) ==
    IF n = 1 THEN data[0] ELSE RMax(maxElement(data, n - 1), data[n - 1])

\* an index of the maximum found from the other end
RECURSIVE findIndexLast(_, _)
findIndexLast(data, size) ==
    IF data[size - 1] = maxElement(data, Cardinality(DOMAIN data)) THEN size - 1
    ELSE findIndexLast(data, size - 1)

\* the loop of findIndex from index i on
RECURSIVE findFrom(_, _, _, _)
findFrom(data, size, max, i) ==
    IF i >= size THEN i
    ELSE IF data[i] = max THEN i
    ELSE findFrom(data, size, max, i + 1)

\* findIndex(data, size)
findIndex(data, size) == findFrom(data, size, maxElement(data, size), 0)

\* deltaEV = logf(expotimes.at(h0)) - logf(expotimes.at(h)), in units of ln 2
deltaEVOf(times, h0, h) == log2f(times[h0]) - log2f(times[h])

\* the calls of comparePatches a run makes, by exposure h, with the cells for
\* which the call returned true; the iteration h == h0 makes no call
reportedBy(size, list, times, h0, gridX, gridY, threshold) ==
    [h \in (0 .. (size - 1)) \ {h0} |->
        { c \in Cells :
            comparePatches(list[h0], list[h], c[1], c[2], gridX, gridY, threshold,
                           deltaEVOf(times, h0, h)) }]

\* a pass over the patches for exposure h that stores the result of every
\* comparison
comparePassOverwrite(patches, list, times, h0, h, gridX, gridY, threshold) ==
    [c \in Cells |->
        comparePatches(list[h0], list[h], c[1], c[2], gridX, gridY, threshold,
                       deltaEVOf(times, h0, h))]

\* the two inner loops of the comparison loop for exposure h:
\* if (comparePatches(...)) patches[i][j] = true
comparePass(patches, list, times, h0, h, gridX, gridY, threshold) ==
    [c \in Cells |->
        IF comparePatches(list[h0], list[h], c[1], c[2], gridX, gridY, threshold,
                          deltaEVOf(times, h0, h))
          THEN TRUE ELSE patches[c]]

\* patches after the iterations h < n of the comparison loop; patches starts
\* all false and the iteration h == h0 is skipped
RECURSIVE patchesAfter(_, _, _, _, _, _, _)
patchesAfter(n, list, times, h0, gridX, gridY, threshold) ==
    IF n = 0 THEN [c \in Cells |-> FALSE]
    ELSE LET prev == patchesAfter(n - 1, list, times, h0, gridX, gridY, threshold)
         IN  IF n - 1 = h0 THEN prev
             ELSE comparePass(prev, list, times, h0, n - 1, gridX, gridY, threshold)

\* the sum of the lightness of the pixels of the patch, as a set sum
RECURSIVE cellLightness(_, _)
cellLightness(img, cell) ==
    IF cell = {} THEN Zero
    ELSE LET p == CHOOSE q \in cell : TRUE
         IN  RAdd(rgb2hsl(img[p][1], img[p][2], img[p][3]).l,
                  cellLightness(img, cell \ {p}))

\* min(max(c, 0), max_rgb)
clampRgb(c) == RMax(RMin(c, Whole(max_rgb)), Zero)

\* the pixel copyPatch writes for the pixel p of its first image
scaledPixel(p, sf) ==
    LET hsl == rgb2hsl(p[1], p[2], p[3])
        l == RMin(RMul(hsl.l, sf), Whole(max_lightness))
        rgb == hsl2rgb(hsl.h, hsl.s, l)
    IN  << clampRgb(rgb[1]), clampRgb(rgb[2]), clampRgb(rgb[3]) >>

\* a correction that rescales the pixels of img2 itself
copyPatchOwn(img1, img2, i, j, gridX, gridY, sf) ==
    LET cell == CellPix(i, j, gridX, gridY)
    IN  IF gridX * gridY = 0 THEN img2
        ELSE LET avgL == RDiv(cellLightness(img1, cell), Whole(gridX * gridY))
             IN  IF RLeq(Whole(max_lightness), avgL) \/ RLeq(avgL, Zero) THEN img2
                 ELSE [p \in DOMAIN img2 |->
                         IF p \in cell THEN scaledPixel(img2[p], sf) ELSE img2[p]]

\* copyPatch (Array2Df) of patch (i, j) from img1 into img2: img2 afterwards.
\* With gridX*gridY = 0 avgL is 0/0 = NaN, both tests are false and the loops
\* are empty.
copyPatch(img1, img2, i, j, gridX, gridY, sf) ==
    LET cell == CellPix(i, j, gridX, gridY)
    IN  IF gridX * gridY = 0 THEN img2
        ELSE LET avgL == RDiv(cellLightness(img1, cell), Whole(gridX * gridY))
             IN  IF RLeq(Whole(max_lightness), avgL) \/ RLeq(avgL, Zero) THEN img2
                 ELSE [p \in DOMAIN img2 |->
                         IF p \in cell THEN scaledPixel(img1[p], sf) ELSE img2[p]]

\* loops that call copyPatch for every patch, flagged or not
RECURSIVE copyCellsAll(_, _, _, _, _, _, _)
copyCellsAll(img1, img2, patches, c, gridX, gridY, sf) ==
    IF c >= gridSize * gridSize THEN img2
    ELSE copyCellsAll(img1,
                      copyPatch(img1, img2, c % gridSize, c \div gridSize, gridX, gridY, sf),
                      patches, c + 1, gridX, gridY, sf)

\* the two inner loops of copyPatches for one exposure, from patch number c
\* on (j outer, i inner): the exposure's image afterwards
RECURSIVE copyCells(_, _, _, _, _, _, _)
copyCells(img1, img2, patches, c, gridX, gridY, sf) ==
    IF c >= gridSize * gridSize THEN img2
    ELSE LET i == c % gridSize
             j == c \div gridSize
         IN  copyCells(img1,
                       IF patches[<<i, j>>]
                         THEN copyPatch(img1, img2, i, j, gridX, gridY, sf)
                         ELSE img2,
                       patches, c + 1, gridX, gridY, sf)

\* copyPatches (Array2Df): every exposure but h0 gets the flagged patches
copyPatches(list, patches, h0, scalefactor, gridX, gridY) ==
    [h \in DOMAIN list |->
        IF h = h0 THEN list[h]
        ELSE copyCells(list[h0], list[h], patches, 0, gridX, gridY, scalefactor[h])]

\* a quotient by zero: infinity or NaN
NotFinite == <<1, 0>>

\* doAutoAntiGhostingMDR(threshold): the locals are computed in the order of
\* the code (avgLightness, HE, h0, scaleFactor, patches), then copyPatches
\* runs; it emits no signal and reports no error
doAutoAntiGhostingMDR(threshold) ==
    LET size == Cardinality(DOMAIN listmdrR)
        width == listmdrR[0].width
        height == listmdrR[0].height
        gridX == width \div gridSize
        gridY == height \div gridSize
    IN  \E avgLightness \in { [i \in 0 .. (size - 1) |->
                                averageLightness(planes[i], width, height)] },
           hues \in { huesOf(planes) } :
        \E HE \in { [i \in 0 .. (size - 1) |->
                      hueSquaredMean(hues, i, size, width, height)] } :
          \E h0 \in { findIndex(HE, size) } :
            \E scaleFactor \in { [i \in 0 .. (size - 1) |->
                                    IF avgLightness[h0] = Zero THEN NotFinite
                                    ELSE RDiv(avgLightness[i], avgLightness[h0])] },
               patches \in { patchesAfter(size, planes, expotimes, h0,
                                          gridX, gridY, threshold) } :
              /\ detection' = [run |-> TRUE, threshold |-> threshold,
                               gridX |-> gridX, gridY |-> gridY, HE |-> HE,
                               h0 |-> h0, scaleFactor |-> scaleFactor,
                               reported |-> reportedBy(size, planes, expotimes, h0,
                                                       gridX, gridY, threshold),
                               patches |-> patches]
              /\ planes' = copyPatches(planes, patches, h0, scaleFactor, gridX, gridY)
              /\ sig' = <<>>
              /\ UNCHANGED <<masks, antiGhosting, conversion, aisVars>>
              /\ UNCHANGED <<raised, m_dataAtCall>>
              /\ UNCHANGED slotVars
              /\ UNCHANGED loadVars

\* doAutoAntiGhosting(threshold) on a set that is not LDR, called once on the
\* exposures as loaded
doAutoAntiGhosting(threshold) ==
    /\ ~detection.run
    /\ inputType # "LDR"
    /\ lastOp' = "doAutoAntiGhosting"
    /\ doAutoAntiGhostingMDR(threshold)

\* the thresholds a caller passes: fractions of the pixels of a patch
Thresholds == { <<0, 1>>, <<1, 2>>, <<1, 1>> }

\* the colours of a scene at exposure value 0: black, gray, a yellow and the
\* saturated white
Black == << Zero, Zero, Zero >>
Gray == << <<1, 4>>, <<1, 4>>, <<1, 4>> >>
Yellow == << <<1, 2>>, <<1, 2>>, <<1, 4>> >>
White == << Whole(max_rgb), Whole(max_rgb), Whole(max_rgb) >>
Palette == { Black, Gray, Yellow, White }

\* a colour as recorded with exposure value ev: the sensor saturates at max_rgb
expose(colour, ev) ==
    [c \in 1 .. 3 |-> RMin(RMul(colour[c], Whole(Pow2(ev))), Whole(max_rgb))]

\* plane sizes: narrower or lower than the grid, one pixel per patch, two
\* pixels per patch, and patches with a border left over
GhostSizes ==
    { <<gridSize - 1, gridSize>>, <<gridSize, gridSize - 1>>, <<gridSize, gridSize>>,
      <<2 * gridSize, gridSize>>, <<2 * gridSize + 1, gridSize + 1>> }

\* the exposures that may show a moving object
GhostExposures == Idx \cap {1, 2}

\* the scenes: a base colour and the colour of the object in each exposure
\* that shows one; a saturated scene has no coloured object
Scenes ==
    { sc \in [base : Palette, object : [GhostExposures -> Palette]] :
        \/ sc.base # White /\ \A i \in GhostExposures : sc.object[i] # White
        \/ sc.base = White /\ \A i \in GhostExposures : sc.object[i] \in {Black, Gray, White} }

\* a batch of NumFiles MDR files of one scene, loaded and with known
\* whole-stop exposure times (every other exposure is step stops longer); in
\* exposures 1 and 2 the object may cover the first pixel, the first row or
\* the whole frame
GhostInit ==
    /\ ConstructedData
    /\ decodable = {}
    /\ inputType = "MDR"
    /\ m_loadingError = FALSE
    /\ m_runningThreads = -NumFiles
    /\ m_processedFiles = NumFiles
    /\ fromCommandLine = FALSE
    /\ ldrImagesList = [i \in Idx |-> NULL]
    /\ filesLackingExif = <<>>
    /\ filesToRemove = [i \in Idx |-> FALSE]
    /\ pending = {}
    /\ \E sz \in GhostSizes :
          /\ listmdrR = [i \in Idx |-> Image(sz[1], sz[2])]
          /\ mdrImagesList = [i \in Idx |-> Image(sz[1], sz[2])]
          /\ antiGhostingMasksList = [i \in Idx |-> TransparentMask(sz[1], sz[2])]
          /\ \E sc \in Scenes, step \in {0, 1}, extent \in {1, sz[1], sz[1] * sz[2]} :
                /\ expotimes = [i \in Idx |-> exp2f(step * (i % 2))]
                /\ planes = [i \in Idx |->
                               [p \in Pix(sz[1], sz[2]) |->
                                  IF i \in GhostExposures /\ p[1] + p[2] * sz[1] < extent
                                    THEN expose(sc.object[i], step * (i % 2))
                                    ELSE expose(sc.base, step * (i % 2))]]
    /\ detection = NoDetection
    /\ masks = [i \in Idx |-> [p \in DOMAIN planes[i] |-> 0]]
    /\ antiGhosting = NoBlend
    /\ conversion = NoConversion
    /\ NoAlignment
    /\ lastOp = "init"
    /\ sig = <<>>
    /\ raised = {}
    /\ m_dataAtCall = <<>>

GhostNext == \E threshold \in Thresholds : doAutoAntiGhosting(threshold)

GhostSpec == GhostInit /\ [][GhostNext]_vars

\* ----------------------------------------------------------------- blending
\* an alpha that prefers mask to maskGoodImage
blendAlphaAuto(mask, maskGoodImage, p) ==
    IF mask[p] = 0 THEN maskGoodImage[p] ELSE mask[p]

\* alpha of blend at a pixel that is not skipped: maskGoodImage's when that is
\* not 0, mask's otherwise
blendAlpha(mask, maskGoodImage, p) ==
    IF maskGoodImage[p] = 0 THEN mask[p] ELSE maskGoodImage[p]

\* maxL after the pixels of linear index < n
RECURSIVE maxLightnessUpTo(_, _, _)
maxLightnessUpTo(img, width, n) ==
    IF n = 0 THEN Zero
    ELSE LET p == img[PosOf(n - 1, width)]
         IN  RMax(maxLightnessUpTo(img, width, n - 1), rgb2hsl(p[1], p[2], p[3]).l)

\* maxLightness(R, G, B)
maxLightness(img, width, height) == maxLightnessUpTo(img, width, height * width)

\* (1.0f - alpha)*c1 + alpha*c2 with alpha = a / 255
lerp(a, c1, c2) ==
    RAdd(RMul(RSub(One, Rat(a, 255)), c1), RMul(Rat(a, 255), c2))

\* r2, g2, b2 of blend (Array2Df) before the interpolation
scaledSource(p2, sf, maxL) ==
    LET hsl == rgb2hsl(p2[1], p2[2], p2[3])
        l == RMin(RMul(hsl.l, sf), maxL)
        rgb == hsl2rgb(hsl.h, hsl.s, l)
    IN  << clampRgb(rgb[1]), clampRgb(rgb[2]), clampRgb(rgb[3]) >>

\* blend (Array2Df): the planes R1, G1, B1 afterwards
blend(img1, img2, mask, maskGoodImage, width, height) ==
    LET sf == RDiv(averageLightness(img1, width, height),
                   averageLightness(img2, width, height))
        maxL == RMax(maxLightness(img1, width, height), maxLightness(img2, width, height))
    IN  [p \in DOMAIN img1 |->
           IF mask[p] = 0 /\ maskGoodImage[p] = 0 THEN img1[p]
           ELSE LET a == blendAlpha(mask, maskGoodImage, p)
                    s2 == scaledSource(img2[p], sf, maxL)
                IN  << lerp(a, img1[p][1], s2[1]), lerp(a, img1[p][2], s2[2]),
                       lerp(a, img1[p][3], s2[3]) >>]

\* the red, green and blue bytes of a QRgb as one number (the alpha byte of
\* the pixels of the images is 0xff)
qRgb(p) == p[1] * 65536 + p[2] * 256 + p[3]
\* qRed, qGreen, qBlue
unpack(w) == << (w \div 65536) % 256, (w \div 256) % 256, w % 256 >>

\* QColor::toHsv().value() of an 8-bit pixel
valueOf(p) == IF p[1] >= p[2] /\ p[1] >= p[3] THEN p[1]
              ELSE IF p[2] >= p[3] THEN p[2] ELSE p[3]

\* the sum of the values of the pixels of linear index < n
RECURSIVE valueSum(_, _, _)
valueSum(img, width, n) ==
    IF n = 0 THEN 0 ELSE valueSum(img, width, n - 1) + valueOf(img[PosOf(n - 1, width)])

\* averageLightness(const QImage&)
averageLightnessQImage(img, width, height) ==
    Rat(valueSum(img, width, height * width), width * height)

\* toHsv, getHsvF, v *= sf, clamp, setHsvF, rgb() on a gray pixel: QColor keeps
\* the value as qRound(v * 65535) and rgb() returns its high byte
hsvScaled(p, sf) ==
    LET v == RMin(RMul(Rat(valueOf(p), 255), sf), One)
        g == Trunc(RAdd(RMul(v, Whole(65535)), <<1, 2>>)) \div 256
    IN  << g, g, g >>

\* the unsigned integer part of (1.0f - alpha)*w1 + alpha*w2, alpha = a / 255,
\* for the low 24 bits of two QRgb with alpha byte 0xff
packedLerp(a, w1, w2) ==
    (255 - a) * (w1 \div 255) + a * (w2 \div 255)
      + (((255 - a) * (w1 % 255) + a * (w2 % 255)) \div 255)

\* blend (QImage): img1 afterwards
blendQImage(img1, img2, mask, maskGoodImage, width, height) ==
    LET sf == RDiv(averageLightnessQImage(img1, width, height),
                   averageLightnessQImage(img2, width, height))
    IN  [p \in DOMAIN img1 |->
           IF mask[p] = 0 /\ maskGoodImage[p] = 0 THEN img1[p]
           ELSE unpack(packedLerp(blendAlpha(mask, maskGoodImage, p),
                                  qRgb(img1[p]), qRgb(hsvScaled(img2[p], sf))))]

\* doAntiGhosting(goodImageIndex): every image but the good one is blended
\* with the good one; called once on the images as loaded
doAntiGhosting(goodImageIndex) ==
    /\ ~antiGhosting.run
    /\ ~detection.run
    /\ goodImageIndex \in DOMAIN planes
    /\ planes' =
          [idx \in DOMAIN planes |->
             IF idx = goodImageIndex THEN planes[idx]
             ELSE IF inputType = "LDR"
               THEN blendQImage(planes[idx], planes[goodImageIndex], masks[idx],
                                masks[goodImageIndex], ldrImagesList[0].width,
                                ldrImagesList[0].height)
               ELSE blend(planes[idx], planes[goodImageIndex], masks[idx],
                          masks[goodImageIndex], listmdrR[0].width, listmdrR[0].height)]
    /\ antiGhosting' = [run |-> TRUE, goodImageIndex |-> goodImageIndex]
    /\ lastOp' = "doAntiGhosting"
    /\ sig' = <<>>
    /\ UNCHANGED <<masks, detection, conversion, aisVars>>
    /\ UNCHANGED <<raised, m_dataAtCall>>
    /\ UNCHANGED slotVars
    /\ UNCHANGED loadVars

\* the alpha a user paints on a mask
MaskAlphas == {0, 128, 255}
\* the gray levels of 8-bit scenes
GrayLevels == {0, 1, 128, 255}
LdrPixel(level) == << level, level, level >>
\* the width and height of the blended images
BlendSize == <<2, 1>>

\* the scenes of a blend: the base is not black, so that no image has average
\* lightness 0
BlendScenes(kind) ==
    IF kind = "LDR"
      THEN [base : { LdrPixel(v) : v \in GrayLevels \ {0} },
            object : [GhostExposures -> { LdrPixel(v) : v \in GrayLevels }]]
      ELSE [base : {Gray, Yellow},
            object : [GhostExposures -> {Black, Gray, Yellow}]]

\* a loaded batch of NumFiles LDR or MDR files of one scene whose object
\* covers the first pixel in exposures 1 and 2, with a mask per file painted
\* on the first pixel
BlendInit ==
    /\ ConstructedData
    /\ decodable = {}
    /\ m_loadingError = FALSE
    /\ m_runningThreads = -NumFiles
    /\ m_processedFiles = NumFiles
    /\ fromCommandLine = FALSE
    /\ filesLackingExif = <<>>
    /\ filesToRemove = [i \in Idx |-> FALSE]
    /\ pending = {}
    /\ expotimes = [i \in Idx |-> exp2f(0)]
    /\ antiGhostingMasksList = [i \in Idx |-> TransparentMask(BlendSize[1], BlendSize[2])]
    /\ inputType \in {"LDR", "MDR"}
    /\ IF inputType = "LDR"
         THEN /\ ldrImagesList = [i \in Idx |-> Image(BlendSize[1], BlendSize[2])]
              /\ listmdrR = [i \in Idx |-> NULL]
              /\ mdrImagesList = [i \in Idx |-> NULL]
         ELSE /\ ldrImagesList = [i \in Idx |-> NULL]
              /\ listmdrR = [i \in Idx |-> Image(BlendSize[1], BlendSize[2])]
              /\ mdrImagesList = [i \in Idx |-> Image(BlendSize[1], BlendSize[2])]
    /\ \E sc \in BlendScenes(inputType) :
          planes = [i \in Idx |->
                      [p \in Pix(BlendSize[1], BlendSize[2]) |->
                         IF i \in GhostExposures /\ p = <<0, 0>>
                           THEN sc.object[i] ELSE sc.base]]
    /\ \E painted \in [Idx -> MaskAlphas] :
          masks = [i \in Idx |->
                     [p \in Pix(BlendSize[1], BlendSize[2]) |->
                        IF p = <<0, 0>> THEN painted[i] ELSE 0]]
    /\ detection = NoDetection
    /\ antiGhosting = NoBlend
    /\ conversion = NoConversion
    /\ NoAlignment
    /\ lastOp = "init"
    /\ sig = <<>>
    /\ raised = {}
    /\ m_dataAtCall = <<>>

BlendNext == \E goodImageIndex \in Idx : doAntiGhosting(goodImageIndex)

BlendSpec == BlendInit /\ [][BlendNext]_vars

\* ----------------------------------------------------------------- cropping
\* a QRect is a record of x, y, width and height
\* QRect::getCoords: the top-left corner and the bottom-right corner, which
\* is the last pixel inside the rectangle
getCoords(ca) ==
    [x_ul |-> ca.x, y_ul |-> ca.y,
     x_br |-> ca.x + ca.width - 1, y_br |-> ca.y + ca.height - 1]

\* QImage::copy(ca): an image of the size of the rectangle
copy(image, ca) == [image EXCEPT !.width = ca.width, !.height = ca.height]

\* one round of list.append(item); list.takeAt(0)
appendTakeAt0(list, item) ==
    [i \in DOMAIN list |-> IF i + 1 \in DOMAIN list THEN list[i + 1] ELSE item]

\* the loops of cropLDR and cropAgMasks: n rounds, each of which appends the
\* copy of the first image and takes the first image away
RECURSIVE cropImages(_, _, _)
cropImages(list, ca, n) ==
    IF n = 0 THEN list
    ELSE cropImages(appendTakeAt0(list, copy(list[0], ca)), ca, n - 1)

\* cropAgMasks(ca)
cropAgMasks(list, ca) == cropImages(list, ca, Cardinality(DOMAIN list))

\* the mask loop of cropMDR: n rounds, each of which appends a new
\* transparent mask and takes the first mask away
RECURSIVE newMasks(_, _, _, _)
newMasks(list, newWidth, newHeight, n) ==
    IF n = 0 THEN list
    ELSE newMasks(appendTakeAt0(list, TransparentMask(newWidth, newHeight)),
                  newWidth, newHeight, n - 1)

\* the crop rectangles: those that lie inside a w x h image
RectsIn(w, h) ==
    { ca \in [x : 0 .. (w - 1), y : 0 .. (h - 1), width : 1 .. w, height : 1 .. h] :
            ca.x + ca.width <= w /\ ca.y + ca.height <= h }

\* cropLDR(ca), cropAgMasks included; every entry of the lists is an image
cropLDR(ca) ==
    /\ \A i \in Idx : ~ldrImagesList[i].null /\ ~antiGhostingMasksList[i].null
    /\ ldrImagesList' = cropImages(ldrImagesList, ca, Cardinality(DOMAIN ldrImagesList))
    /\ antiGhostingMasksList' = cropAgMasks(antiGhostingMasksList, ca)
    /\ lastOp' = "cropLDR"
    /\ sig' = <<>>
    /\ UNCHANGED <<inputType, m_loadingError, m_runningThreads, m_processedFiles,
                   fromCommandLine, listmdrR, mdrImagesList, expotimes,
                   filesLackingExif, filesToRemove, pending>>
    /\ UNCHANGED pixelVars
    /\ UNCHANGED <<raised, m_dataAtCall>>
    /\ UNCHANGED loadVars

\* cropMDR(ca), cropAgMasks included; every entry of the lists is an image
cropMDR(ca) ==
    /\ \A i \in Idx : /\ ~listmdrR[i].null
                      /\ ~mdrImagesList[i].null
                      /\ ~antiGhostingMasksList[i].null
    /\ LET c == getCoords(ca)
           newWidth == c.x_br - c.x_ul
           newHeight == c.y_br - c.y_ul
           n == Cardinality(DOMAIN mdrImagesList)
       IN  /\ listmdrR' = [idx \in DOMAIN listmdrR |->
                              [listmdrR[idx] EXCEPT !.width = newWidth,
                                                    !.height = newHeight]]
           /\ mdrImagesList' = cropImages(mdrImagesList, ca, n)
           /\ antiGhostingMasksList' =
                 cropAgMasks(newMasks(antiGhostingMasksList, newWidth, newHeight, n), ca)
    /\ lastOp' = "cropMDR"
    /\ sig' = <<>>
    /\ UNCHANGED <<inputType, m_loadingError, m_runningThreads, m_processedFiles,
                   fromCommandLine, ldrImagesList, expotimes,
                   filesLackingExif, filesToRemove, pending>>
    /\ UNCHANGED pixelVars
    /\ UNCHANGED <<raised, m_dataAtCall>>
    /\ UNCHANGED loadVars

\* the loader slots, and the crop of a set of which every image has arrived
CropNext ==
    \/ Next
    \/ \E ca \in RectsIn(MaxDim, MaxDim) :
          /\ \A i \in Idx : ~ldrImagesList[i].null
                              => ca \in RectsIn(ldrImagesList[i].width, ldrImagesList[i].height)
          /\ cropLDR(ca)
    \/ \E ca \in RectsIn(MaxDim, MaxDim) :
          /\ \A i \in Idx : ~mdrImagesList[i].null
                              => ca \in RectsIn(mdrImagesList[i].width, mdrImagesList[i].height)
          /\ cropMDR(ca)

CropSpec == Init /\ [][CropNext]_vars

\* ---------------------------------------------------------------- alignment
\* the exit codes of align_image_stack and the exit statuses of QProcess
ExitCodes == {0, 1}
ExitStatuses == {"NormalExit", "CrashExit"}

\* a QProcess just created by align_with_ais
NewProcess(started) ==
    [state |-> IF started THEN "Running" ELSE "NotRunning",
     exited |-> FALSE, exitcode |-> 0, exitstatus |-> "NormalExit",
     handled |-> FALSE, finishedAligning |-> 0]

\* align_with_ais(): ais = new QProcess(this), the connects and ais->start();
\* the start of the program succeeds or fails (error(FailedToStart), which
\* the connections turn into ais_failed and ais_failed_slot)
align_with_ais(started) ==
    /\ Len(processes) < MaxProcs
    /\ processes' = Append(processes, NewProcess(started))
    /\ ais' = Len(processes) + 1
    /\ lastOp' = "align_with_ais"
    /\ sig' = IF started THEN <<>> ELSE << <<"ais_failed", "FailedToStart">> >>
    /\ UNCHANGED <<planes, detection, masks, antiGhosting, conversion>>
    /\ UNCHANGED <<raised, m_dataAtCall>>
    /\ UNCHANGED slotVars
    /\ UNCHANGED loadVars

\* the child process of QProcess p ends; its QProcess has not seen it yet
processEnds(p, exitcode, exitstatus) ==
    /\ p \in DOMAIN processes
    /\ processes[p].state = "Running"
    /\ ~processes[p].exited
    /\ processes' = [processes EXCEPT ![p].exited = TRUE, ![p].exitcode = exitcode,
                                      ![p].exitstatus = exitstatus]
    /\ lastOp' = "processEnds"
    /\ sig' = <<>>
    /\ UNCHANGED ais
    /\ UNCHANGED <<planes, detection, masks, antiGhosting, conversion>>
    /\ UNCHANGED <<raised, m_dataAtCall>>
    /\ UNCHANGED slotVars
    /\ UNCHANGED loadVars

\* the signals ais_finished(exitcode, exitstatus) emits
finishedSignals(exitcode, exitstatus) ==
    IF exitstatus # "NormalExit" THEN <<>>
    ELSE << <<"finishedAligning", exitcode>> >>

\* QProcess p reports the end of its child: error(Crashed) after a crash
\* (ais_failed, ais_failed_slot), then finished(exitcode, exitstatus), whose
\* slot is ais_finished
ais_finished(p) ==
    /\ p \in DOMAIN processes
    /\ processes[p].exited
    /\ ~processes[p].handled
    /\ LET emitted == finishedSignals(processes[p].exitcode, processes[p].exitstatus)
       IN  /\ processes' = [processes EXCEPT ![p].state = "NotRunning",
                                             ![p].handled = TRUE,
                                             ![p].finishedAligning = @ + Len(emitted)]
           /\ sig' = (IF processes[p].exitstatus = "CrashExit"
                        THEN << <<"ais_failed", "Crashed">> >> ELSE <<>>) \o emitted
    /\ lastOp' = "ais_finished"
    /\ UNCHANGED ais
    /\ UNCHANGED <<planes, detection, masks, antiGhosting, conversion>>
    /\ UNCHANGED <<raised, m_dataAtCall>>
    /\ UNCHANGED slotVars
    /\ UNCHANGED loadVars

\* a loaded batch of NumFiles LDR or MDR files of 1 x 1 pixels with known
\* exposure times, and no alignment started
AisInit ==
    /\ ConstructedData
    /\ decodable = {}
    /\ m_loadingError = FALSE
    /\ m_runningThreads = -NumFiles
    /\ m_processedFiles = NumFiles
    /\ fromCommandLine \in BOOLEAN
    /\ filesLackingExif = <<>>
    /\ filesToRemove = [i \in Idx |-> FALSE]
    /\ pending = {}
    /\ expotimes = [i \in Idx |-> exp2f(0)]
    /\ antiGhostingMasksList = [i \in Idx |-> TransparentMask(1, 1)]
    /\ inputType \in {"LDR", "MDR"}
    /\ IF inputType = "LDR"
         THEN /\ ldrImagesList = [i \in Idx |-> Image(1, 1)]
              /\ listmdrR = [i \in Idx |-> NULL]
              /\ mdrImagesList = [i \in Idx |-> NULL]
         ELSE /\ ldrImagesList = [i \in Idx |-> NULL]
              /\ listmdrR = [i \in Idx |-> Image(1, 1)]
              /\ mdrImagesList = [i \in Idx |-> Image(1, 1)]
    /\ lastOp = "init"
    /\ NoPixels
    /\ sig = <<>>
    /\ raised = {}
    /\ m_dataAtCall = <<>>

AisNext ==
    \/ \E started \in BOOLEAN : align_with_ais(started)
    \/ \E p \in 1 .. MaxProcs, exitcode \in ExitCodes, exitstatus \in ExitStatuses :
          processEnds(p, exitcode, exitstatus)
    \/ \E p \in 1 .. MaxProcs : ais_finished(p)

AisSpec == AisInit /\ [][AisNext]_vars

\* the event loop delivers the finished signal of every process that ended
AisFairSpec == AisSpec /\ \A p \in 1 .. MaxProcs : WF_vars(ais_finished(p))

\* ================================================================== claims
\* the images, planes, previews and masks the set holds
StoredImages ==
    { x \in { ldrImagesList[i] : i \in DOMAIN ldrImagesList }
              \cup { listmdrR[i] : i \in DOMAIN listmdrR }
              \cup { mdrImagesList[i] : i \in DOMAIN mdrImagesList }
              \cup { antiGhostingMasksList[i] : i \in DOMAIN antiGhostingMasksList } :
        ~x.null }

TypeError == << Signal("errorWhileLoading", "type", -1, -1) >>
SizeError == << Signal("errorWhileLoading", "size", -1, -1) >>
Refused == << Signal("processed", "", -1, -1) >>

\* C1: an MDR item arriving through mdrReady at a set whose inputType is LDR,
\* or an LDR item arriving through ldrReady at a set whose inputType is MDR,
\* leaves the set in the error state (m_loadingError set), is stored at no
\* index, and leaves every stored item, mask, exposure time and the inputType
\* as they were; errorWhileLoading with the type message is what the handler
\* emits, unless the set was in the error state already, where the arrival is
\* refused by the error state itself.
C1_TypeMismatchRejected ==
    [][ ( (lastOp' = "mdrReady" /\ inputType = "LDR")
            \/ (lastOp' = "ldrReady" /\ inputType = "MDR") )
        => /\ m_loadingError'
           /\ stores' = stores
           /\ inputType' = inputType
           /\ (~m_loadingError => sig' = TypeError) ]_vars

\* an MDR item has just been refused with the type message by a set that
\* holds an LDR image
C1_Witness ==
    /\ lastOp = "mdrReady"
    /\ inputType = "LDR"
    /\ sig = TypeError
    /\ m_loadingError
    /\ \E i \in DOMAIN ldrImagesList : ~ldrImagesList[i].null

\* every stored image, plane, preview and mask has one width and one height
UniformDimensions ==
    \A a \in StoredImages, b \in StoredImages : a.width = b.width /\ a.height = b.height

\* some stored item is not w wide and h high
DiffersFromStored(w, h) ==
    \E a \in StoredImages : a.width # w \/ a.height # h

\* the step is ldrReady / mdrReady reporting file i with a w x h image
ldrArrives(i, w, h) == \E t \in SlotTimes, r \in Renamed : ldrReady(i, w, h, t, r)
mdrArrives(i, w, h) == \E t \in SlotTimes, r \in Renamed : mdrReady(i, w, h, t, r)

\* C2: whatever the order in which the indices arrive through ldrReady and
\* mdrReady, all stored items have the same width and height, and an item
\* whose width or height differs from a stored item's is not stored and
\* leaves the set in the error state; the size message is what the handler
\* emits when the set was not in the error state and the item's kind agrees
\* with the inputType.
C2_UniformDimensions ==
    [][ /\ UniformDimensions'
        /\ \A i \in pending \ pending' :
             /\ lastOp' = "ldrReady" =>
                  \/ /\ stores' = stores
                     /\ m_loadingError'
                     /\ (~m_loadingError /\ inputType # "MDR" => sig' = SizeError)
                  \/ \A w \in Dims, h \in Dims :
                        DiffersFromStored(w, h) => ~ldrArrives(i, w, h)
             /\ lastOp' = "mdrReady" =>
                  \/ /\ stores' = stores
                     /\ m_loadingError'
                     /\ (~m_loadingError /\ inputType # "LDR" => sig' = SizeError)
                  \/ \A w \in Dims, h \in Dims :
                        DiffersFromStored(w, h) => ~mdrArrives(i, w, h) ]_vars

\* an LDR item has just been refused with the size message by a set that
\* holds an LDR image at a later index than an empty slot
C2_Witness ==
    /\ lastOp = "ldrReady"
    /\ sig = SizeError
    /\ \E i \in DOMAIN ldrImagesList, j \in DOMAIN ldrImagesList :
            i < j /\ ldrImagesList[i].null /\ ~ldrImagesList[j].null

\* C3: in the error state every ldrReady and mdrReady call leaves the stored
\* items, their exposure times, the inputType, the ghost masks and the list of
\* files lacking EXIF data unchanged, and no operation leaves the error state.
C3_ErrorStateSticky ==
    [][ m_loadingError
        => /\ m_loadingError'
           /\ (lastOp' \in {"ldrReady", "mdrReady"}
                 => stores' = stores /\ inputType' = inputType) ]_vars

\* after a type or size error, an arrival has been refused by a set that
\* still holds an item
C3_Witness ==
    /\ m_loadingError
    /\ raised \cap {"type", "size"} # {}
    /\ lastOp \in {"ldrReady", "mdrReady"}
    /\ sig = Refused
    /\ StoredImages # {}

\* C4: as long as the only errors raised are load failures, an item that
\* arrives with the kind and the size of the stored items is stored.
C4_LoadFailureRecoverable ==
    [][ \A i \in pending \ pending', w \in Dims, h \in Dims, t \in SlotTimes, r \in Renamed :
          (raised \subseteq {"load"} /\ ~DiffersFromStored(w, h)) =>
            /\ (lastOp' = "ldrReady" /\ inputType # "MDR" /\ ldrReady(i, w, h, t, r))
                  => ldrImagesList'[i] = Image(w, h) /\ expotimes'[i] = t
            /\ (lastOp' = "mdrReady" /\ inputType # "LDR" /\ mdrReady(i, w, h, t, r))
                  => listmdrR'[i] = Image(w, h) /\ expotimes'[i] = t ]_vars

\* ---- loadFiles
\* the number of items of data whose path is p
RECURSIVE count(_, _)
count(data, p) ==
    IF data = <<>> THEN 0
    ELSE (IF Head(data).filename = p THEN 1 ELSE 0) + count(Tail(data), p)

\* the paths of the items of data
paths(data) == { data[k].filename : k \in 1 .. Len(data) }

\* the steps of a loadFiles call: its entry, its return after a map that was
\* not cancelled, its return after a cancelled map
callBegins == pc = "idle" /\ pc' = "map"
callReturns == pc = "map" /\ pc' = "idle" /\ ~canceled
callReturnsCanceled == pc = "map" /\ pc' = "idle" /\ canceled

\* LoadFile on every item of items
loadAll(items) == [k \in 1 .. Len(items) |-> LoadFileResult(items[k])]

\* m_data after a whole loadFiles(names) call on data that is not cancelled
loadFilesResult(data, names) == insertValid(data, loadAll(schedule(data, names)))

\* C5: a loadFiles call schedules no item for a path that is in the set, and
\* when it returns the set holds as many items of each such path as before;
\* the same list handed to loadFiles again, after the call has returned,
\* gives the set the call has left.
C5_LoadIdempotent ==
    [][ /\ callBegins =>
              \A k \in 1 .. Len(tempItems') : tempItems'[k].filename \notin paths(m_data)
        /\ callReturns =>
              /\ \A p \in paths(m_dataAtCall) : count(m_data', p) = count(m_dataAtCall, p)
              /\ loadFilesResult(m_data', filenames) = m_data' ]_vars

\* a call that names a path of the set and a path that is not in it has
\* returned: one item was scheduled for the two names
C5_Witness ==
    /\ lastOp = "loadFilesEnd"
    /\ Len(sig) = 2
    /\ sig[2].idx = 1
    /\ sig[2].val = 2
    /\ Len(m_data) = 2
    /\ m_data[1].filename # m_data[2].filename

\* C6: no two items of the set have the same path.
C6_UniquePaths ==
    \A i \in 1 .. Len(m_data), j \in 1 .. Len(m_data) :
        i # j => m_data[i].filename # m_data[j].filename

\* C7: while the map of a loadFiles call runs the set does not change, and a
\* call whose map was cancelled returns with the set as the call found it.
C7_CancelAllOrNothing ==
    [][ /\ (pc = "map" /\ pc' = "map") => m_data' = m_data
        /\ callReturnsCanceled => m_data' = m_dataAtCall /\ m_data' = m_data ]_vars

\* a cancelled call has returned to a set that holds an item
C7_Witness ==
    /\ lastOp = "loadFilesCanceled"
    /\ pc = "idle"
    /\ m_data # <<>>

\* the items a call appends: one loaded item per name of the request that is
\* not a path of data and that the reader can read, in the order of the request
RECURSIVE Expected(_, _)
Expected(data, names) ==
    IF names = <<>> THEN <<>>
    ELSE (IF Head(names) \notin paths(data) /\ Head(names) \in decodable
            THEN << [filename |-> Head(names), loaded |-> TRUE] >>
            ELSE <<>>)
         \o Expected(data, Tail(names))

\* C8: a loadFiles call that was not cancelled returns with the set it found
\* followed by the scheduled items that are valid, in the order of their paths
\* in the request, in whatever order LoadFile ran on them.
C8_AppendsValidInOrder ==
    [][ callReturns => m_data' = m_dataAtCall \o Expected(m_dataAtCall, filenames) ]_vars

\* a call has returned that scheduled two items and appended one of them
\* behind the item the set held
C8_Witness ==
    /\ lastOp = "loadFilesEnd"
    /\ Len(sig) = 2
    /\ sig[2].idx = 2
    /\ Len(m_data) = 1
    /\ decodable # Paths

\* C29: a LoadFile task writes the temporary item it was started on, which
\* no other task was or will be started on, and nothing else; m_data is as
\* loadFiles read it for as long as the map runs, and it changes only when no
\* task runs: in the calling thread after every task has returned.
C29_SingleWriter ==
    [][ /\ lastOp' = "LoadFile" =>
              \E k \in DOMAIN tempItems :
                 /\ k \notin ran
                 /\ ran' = ran \cup {k}
                 /\ DOMAIN tempItems' = DOMAIN tempItems
                 /\ \A j \in DOMAIN tempItems : j # k => tempItems'[j] = tempItems[j]
                 /\ m_data' = m_data
        /\ pc = "map" => m_data = m_dataAtCall
        /\ m_data' # m_data =>
              /\ pc' = "idle"
              /\ pc = "map" => ran = DOMAIN tempItems /\ ~canceled ]_vars

\* the map of a call on a set that holds an item is running: one of its two
\* tasks has returned with the data of its file
C29_Witness ==
    /\ pc = "map"
    /\ lastOp = "LoadFile"
    /\ Len(tempItems) = 2
    /\ Cardinality(ran) = 1
    /\ \E k \in ran : tempItems[k].loaded
    /\ m_data # <<>>

\* ---- checkEVvalues
\* the files whose exposure time is a number
known(times) == { i \in DOMAIN times : times[i] > 0 }

\* every known exposure value is within [-10, 10]
EVInRange(times) ==
    \A i \in known(times) : -10 <= log2f(times[i]) /\ log2f(times[i]) <= 10

\* no two known exposure values are more than 20 stops apart
SpanAtMost20(times) ==
    \A i \in known(times), j \in known(times) : log2f(times[i]) - log2f(times[j]) <= 20

\* C9 as stated: after checkEVvalues every known exposure value is within
\* [-10, 10], whatever the values were.
C9_EVRange ==
    lastOp = "checkEVvalues" => EVInRange(expotimes)

\* C9: checkEVvalues on exposure values that span at most 20 stops leaves
\* every known exposure value within [-10, 10].
C9_EVRangeWithinSpan ==
    [][ (lastOp' = "checkEVvalues" /\ SpanAtMost20(expotimes)) => EVInRange(expotimes') ]_vars

\* checkEVvalues has moved the values of a batch into the range
C9_Witness ==
    /\ lastOp = "checkEVvalues"
    /\ sig # <<>>
    /\ known(expotimes) # {}
    /\ EVInRange(expotimes)

\* C10: checkEVvalues leaves every known exposure time known and every
\* difference between two known exposure values as it was.
C10_PureShift ==
    [][ lastOp' = "checkEVvalues" =>
          \A i \in known(expotimes), j \in known(expotimes) :
              /\ i \in known(expotimes')
              /\ j \in known(expotimes')
              /\ log2f(expotimes'[i]) - log2f(expotimes'[j])
                    = log2f(expotimes[i]) - log2f(expotimes[j]) ]_vars

\* checkEVvalues has raised the values of a batch of two different exposures
\* whose lowest value was below -10
C10_Witness ==
    /\ lastOp = "checkEVvalues"
    /\ sig # <<>>
    /\ \E i \in known(expotimes), j \in known(expotimes) :
          /\ log2f(expotimes[i]) = -10
          /\ log2f(expotimes[j]) > -10

\* the exposure values of the known times
evs(times) == { log2f(times[i]) : i \in known(times) }
highest(S) == CHOOSE m \in S : \A x \in S : x <= m
lowest(S) == CHOOSE m \in S : \A x \in S : m <= x

\* every known exposure value of times is offset lower in after
decreasedBy(times, after, offset) ==
    \A i \in known(times) :
        i \in known(after) /\ log2f(after[i]) = log2f(times[i]) - offset

\* one expotimeValueChanged per file, carrying the time the file has in after
onePerItem(signals, after) ==
    /\ Len(signals) = Cardinality(DOMAIN after)
    /\ \A i \in DOMAIN after :
          /\ Cardinality({ k \in DOMAIN signals : signals[k].idx = i }) = 1
          /\ \A k \in DOMAIN signals :
                signals[k].idx = i =>
                   signals[k].name = "expotimeValueChanged" /\ signals[k].val = after[i]

\* C27: checkEVvalues with a highest exposure value above 10 lowers every
\* value by (highest - 10), so the highest becomes 10, whatever the lowest
\* is; otherwise with a lowest value below -10 it lowers every value by
\* (lowest + 10), so the lowest becomes -10; otherwise no time changes and
\* nothing is emitted.  A branch that fires emits one expotimeValueChanged
\* per file with the file's new time.
C27_BranchSelection ==
    [][ lastOp' = "checkEVvalues" =>
          IF evs(expotimes) # {} /\ highest(evs(expotimes)) > 10
            THEN /\ decreasedBy(expotimes, expotimes', highest(evs(expotimes)) - 10)
                 /\ highest(evs(expotimes')) = 10
                 /\ onePerItem(sig', expotimes')
          ELSE IF evs(expotimes) # {} /\ lowest(evs(expotimes)) < -10
            THEN /\ decreasedBy(expotimes, expotimes', lowest(evs(expotimes)) + 10)
                 /\ lowest(evs(expotimes')) = -10
                 /\ onePerItem(sig', expotimes')
          ELSE /\ expotimes' = expotimes
               /\ sig' = <<>>
      ]_vars

\* checkEVvalues has taken the max-branch on a batch whose lowest value was
\* below -10 as well
C27_Witness ==
    /\ lastOp = "checkEVvalues"
    /\ Len(sig) = NumExposures
    /\ evs(expotimes) # {}
    /\ highest(evs(expotimes)) = 10
    /\ lowest(evs(expotimes)) = -MaxEV - 1

\* ---- setEV
\* what setEV(ev, i) does to the time of file i, to the other times and to
\* the listeners
setEVSetsTime(ev, i) ==
    /\ expotimes'[i] = exp2f(ev)
    /\ \A k \in DOMAIN expotimes : k # i => expotimes'[k] = expotimes[k]
    /\ sig' = << Signal("expotimeValueChanged", "", i, exp2f(ev)) >>

\* C11 as stated: setEV on an index that holds the sentinel removes exactly
\* one entry of filesLackingExif, the head; on an index with a known time it
\* leaves the list unchanged; the time of the index becomes 2^ev, no other
\* time changes and one notification for the index is emitted.
C11_SetEVRemovesHead ==
    [][ \A ev \in UserEVs, i \in Exposures :
          setEV(ev, i) =>
            /\ setEVSetsTime(ev, i)
            /\ IF expotimes[i] = NoExpotime
                 THEN /\ Len(filesLackingExif') = Len(filesLackingExif) - 1
                      /\ filesLackingExif' = Tail(filesLackingExif)
                 ELSE filesLackingExif' = filesLackingExif ]_vars

\* C11: setEV on an index that holds the sentinel removes the head of
\* filesLackingExif, whichever index was set, when the list has an entry, and
\* leaves an empty list empty; the rest as stated.
C11_SetEVRemovesHeadIfAny ==
    [][ \A ev \in UserEVs, i \in Exposures :
          setEV(ev, i) =>
            /\ setEVSetsTime(ev, i)
            /\ IF expotimes[i] = NoExpotime /\ filesLackingExif # <<>>
                 THEN filesLackingExif' = Tail(filesLackingExif)
                 ELSE filesLackingExif' = filesLackingExif ]_vars

\* setEV has just been called on a file that held the sentinel and whose
\* entry was not the head: the entry that is left is that file's own
C11_Witness ==
    /\ lastOp = "setEV"
    /\ Len(sig) = 1
    /\ Len(filesLackingExif) = 1
    /\ filesLackingExif[1] = sig[1].idx
    /\ \E k \in DOMAIN expotimes : k # sig[1].idx /\ expotimes[k] = NoExpotime

\* ---------------------------------------------------------- anti-ghosting
\* a detection run has completed
detected == lastOp = "doAutoAntiGhosting" /\ detection.run
\* the per-cell extent of the run is 0 in one axis
degenerate == detection.gridX = 0 \/ detection.gridY = 0
\* the grid cells the run flagged
flagged == { c \in Cells : detection.patches[c] }

\* C12 (as stated): a detection run on images narrower or lower than gridSize,
\* whose per-cell extent is 0, raises a DegenerateGrid error.
C12_DegenerateGridRaises ==
    (detected /\ degenerate) => "DegenerateGrid" \in raised

\* the cells a run with threshold t flags on the exposures of the current
\* state, with reference h0
flaggedWith(t, h0) ==
    LET width == listmdrR[0].width
        height == listmdrR[0].height
        p == patchesAfter(Cardinality(DOMAIN listmdrR), planes, expotimes, h0,
                          width \div gridSize, height \div gridSize, t)
    IN  { c \in Cells : p[c] }

\* C13: for the same exposures, reference and exposure times, the cells a
\* detection run flags with threshold t2 are among the cells flagged with any
\* threshold t1 <= t2.
C13_ThresholdMonotone ==
    [][ detection'.run =>
          \A t2 \in Thresholds :
             RLeq(detection'.threshold, t2) =>
                flaggedWith(t2, detection'.h0) \subseteq { c \in Cells : detection'.patches[c] }
      ]_vars

\* a run with the middle threshold that flagged some cells but not all, on
\* cells of more than one pixel
C13_Witness ==
    /\ detected
    /\ detection.threshold = <<1, 2>>
    /\ detection.gridX * detection.gridY > 1
    /\ flagged # {}
    /\ flagged # Cells

\* every exposure has the pixels and the exposure time of exposure 0
identicalExposures ==
    \A h \in DOMAIN planes : planes[h] = planes[0] /\ expotimes[h] = expotimes[0]

\* C14: on pixel-identical exposures with equal exposure times a detection
\* run flags no cell and the correction changes no pixel.
C14_ZeroGhosting ==
    [][ (identicalExposures /\ detection'.run) =>
           /\ \A c \in Cells : ~detection'.patches[c]
           /\ planes' = planes
      ]_vars

\* a run at threshold 0 on identical exposures that are not black, with cells
\* of at least one pixel
C14_Witness ==
    /\ detected
    /\ ~degenerate
    /\ detection.threshold = Zero
    /\ identicalExposures
    /\ \E p \in DOMAIN planes[0] : planes[0][p] # Black

\* exposure 2 differs in hue from the other exposures at every pixel, and the
\* other exposures agree in hue
hueOfSecondDiffers ==
    LET hues == huesOf(planes)
    IN  /\ 2 \in DOMAIN planes
        /\ \A pos \in DOMAIN planes[0] :
              /\ hues[2][pos] # hues[0][pos]
              /\ \A h \in DOMAIN planes \ {2} : hues[h][pos] = hues[0][pos]

\* C15: the reference index of a detection run is the lowest index at which HE
\* is maximal; with three exposures or more of which exposure 2 alone differs
\* in hue from the others, everywhere, HE[2] is strictly the largest and the
\* reference index is 2.
C15_ReferenceIsArgmax ==
    [][ detection'.run =>
          LET HE == detection'.HE
              r == detection'.h0
          IN  /\ r \in DOMAIN planes
              /\ \A k \in DOMAIN planes : RLeq(HE[k], HE[r])
              /\ \A k \in DOMAIN planes : k < r => RLess(HE[k], HE[r])
              /\ hueOfSecondDiffers =>
                    /\ r = 2
                    /\ \A k \in DOMAIN planes \ {2} : RLess(HE[k], HE[2])
      ]_vars

\* a run that chose exposure 2, coloured everywhere, whose HE is strictly the
\* largest while the first two exposures have the same, positive, HE
C15_Witness ==
    /\ detected
    /\ \A pos \in DOMAIN planes[2] : hueOf(planes[2][pos]) # Zero
    /\ detection.h0 = 2
    /\ detection.HE[0] = detection.HE[1]
    /\ RLess(Zero, detection.HE[0])
    /\ RLess(detection.HE[0], detection.HE[2])

\* C16: the flags of a detection run are all false at its start, a flag that
\* is set stays set through the iterations of the run, and at the end a cell is
\* flagged exactly when the comparison of the reference with some other
\* exposure returned true for it; no comparison is made for the reference.
C16_FlagAccumulation ==
    [][ detection'.run =>
          LET size == Cardinality(DOMAIN planes)
              after(n) == patchesAfter(n, planes, expotimes, detection'.h0,
                                       detection'.gridX, detection'.gridY,
                                       detection'.threshold)
          IN  /\ \A c \in Cells : ~after(0)[c]
              /\ \A n \in 0 .. (size - 1), c \in Cells : after(n)[c] => after(n + 1)[c]
              /\ detection'.patches = after(size)
              /\ DOMAIN detection'.reported = DOMAIN planes \ {detection'.h0}
              /\ \A c \in Cells :
                    detection'.patches[c] <=>
                       \E h \in DOMAIN detection'.reported : c \in detection'.reported[h]
      ]_vars

\* a run in which the comparison with one exposure returned true for a cell
\* and the comparison with a later exposure returned false for it
C16_Witness ==
    /\ detected
    /\ \E h1 \in DOMAIN detection.reported, h2 \in DOMAIN detection.reported, c \in Cells :
          /\ h1 < h2
          /\ c \in detection.reported[h1]
          /\ c \notin detection.reported[h2]
          /\ detection.patches[c]

\* copyPatch returns before its second loop for cell c of the reference img1:
\* the average lightness of the cell is at the ceiling or not positive
skipped(img1, c, gridX, gridY) ==
    LET avgL == RDiv(cellLightness(img1, CellPix(c[1], c[2], gridX, gridY)),
                     Whole(gridX * gridY))
    IN  RLeq(Whole(max_lightness), avgL) \/ RLeq(avgL, Zero)

\* the cells of a run that copyPatch rewrites in every exposure but the
\* reference: flagged, of at least one pixel, and not skipped
corrected(d, ref) ==
    { c \in Cells : /\ d.patches[c]
                    /\ d.gridX * d.gridY > 0
                    /\ ~skipped(ref, c, d.gridX, d.gridY) }

\* C17 (as stated): after the correction every pixel of a flagged, not skipped
\* cell of an exposure h other than the reference is the pixel exposure h had
\* there before the call, with its lightness multiplied by scaleFactor[h] and
\* clamped.
C17_RescalesOwnPixels ==
    [][ detection'.run =>
          LET d == detection'
          IN  \A h \in DOMAIN planes \ {d.h0}, c \in corrected(d, planes[d.h0]) :
                 \A p \in CellPix(c[1], c[2], d.gridX, d.gridY) :
                    planes'[h][p] = scaledPixel(planes[h][p], d.scaleFactor[h])
      ]_vars

\* C17 (amended): after the correction every pixel of a flagged, not skipped
\* cell of an exposure h other than the reference is the pixel of the
\* reference at that position, with its lightness multiplied by
\* scaleFactor[h] and clamped.
C17_RescalesReferencePixels ==
    [][ detection'.run =>
          LET d == detection'
          IN  \A h \in DOMAIN planes \ {d.h0}, c \in corrected(d, planes[d.h0]) :
                 \A p \in CellPix(c[1], c[2], d.gridX, d.gridY) :
                    planes'[h][p] = scaledPixel(planes[d.h0][p], d.scaleFactor[h])
      ]_vars

\* a run that rewrote a cell of an exposure from a coloured pixel of the
\* reference, with a scale factor other than 1
C17_Witness ==
    /\ detected
    /\ \E h \in DOMAIN planes \ {detection.h0},
          c \in corrected(detection, planes[detection.h0]) :
          \E p \in CellPix(c[1], c[2], detection.gridX, detection.gridY) :
             /\ detection.scaleFactor[h] # One
             /\ hueOf(planes[detection.h0][p]) # Zero
             /\ planes[h][p] = scaledPixel(planes[detection.h0][p], detection.scaleFactor[h])

\* the pixels outside the gridSize*gridX by gridSize*gridY area of a run
border(d) ==
    { p \in DOMAIN planes[0] : p[1] >= gridSize * d.gridX \/ p[2] >= gridSize * d.gridY }

\* C18: a correction pass changes no pixel of the reference exposure, no pixel
\* of an unflagged cell, no pixel of the border outside the grid, and no pixel
\* of a flagged cell whose average lightness in the reference is at the
\* ceiling or not positive.
C18_CorrectionFrame ==
    [][ detection'.run =>
          LET d == detection'
              ref == planes[d.h0]
          IN  /\ planes'[d.h0] = ref
              /\ DOMAIN planes' = DOMAIN planes
              /\ \A h \in DOMAIN planes :
                    /\ DOMAIN planes'[h] = DOMAIN planes[h]
                    /\ \A p \in border(d) : planes'[h][p] = planes[h][p]
                    /\ \A c \in Cells :
                          (~d.patches[c] \/ skipped(ref, c, d.gridX, d.gridY)) =>
                             \A p \in CellPix(c[1], c[2], d.gridX, d.gridY) \cap DOMAIN planes[h] :
                                planes'[h][p] = planes[h][p]
      ]_vars

\* a run on planes with a border that rewrote one cell and left another
\* unflagged
C18_Witness ==
    /\ detected
    /\ border(detection) # {}
    /\ corrected(detection, planes[detection.h0]) # {}
    /\ flagged # Cells
    /\ \E h \in DOMAIN planes : planes[h] # planes[detection.h0]

\* a run that flagged a cell of at least one pixel and skipped it
C18_WitnessSkipped ==
    /\ detected
    /\ ~degenerate
    /\ \E c \in flagged : skipped(planes[detection.h0], c, detection.gridX, detection.gridY)

\* ----------------------------------------------------------------- blending
\* a doAntiGhosting call has completed
blended == lastOp = "doAntiGhosting" /\ antiGhosting.run

\* the pixel at p of the target after a blend with alpha a / 255 of the target
\* img1 and the source img2, as the path for the input type computes it
blendedPixel(a, img1, img2, p) ==
    IF inputType = "LDR"
      THEN LET width == ldrImagesList[0].width
               height == ldrImagesList[0].height
               sf == RDiv(averageLightnessQImage(img1, width, height),
                          averageLightnessQImage(img2, width, height))
           IN  unpack(packedLerp(a, qRgb(img1[p]), qRgb(hsvScaled(img2[p], sf))))
      ELSE LET width == listmdrR[0].width
               height == listmdrR[0].height
               sf == RDiv(averageLightness(img1, width, height),
                          averageLightness(img2, width, height))
               maxL == RMax(maxLightness(img1, width, height),
                            maxLightness(img2, width, height))
               s2 == scaledSource(img2[p], sf, maxL)
           IN  [c \in 1 .. 3 |-> lerp(a, img1[p][c], s2[c])]

\* C19: a blend leaves a target pixel unchanged where both masks have alpha 0,
\* never changes the source or a mask, and elsewhere blends with the alpha of
\* the good image's mask when that is not 0 and of the target's mask
\* otherwise.
C19_BlendFrame ==
    [][ antiGhosting'.run =>
          LET g == antiGhosting'.goodImageIndex
          IN  /\ masks' = masks
              /\ planes'[g] = planes[g]
              /\ DOMAIN planes' = DOMAIN planes
              /\ \A idx \in DOMAIN planes \ {g} :
                    /\ DOMAIN planes'[idx] = DOMAIN planes[idx]
                    /\ \A p \in DOMAIN planes[idx] :
                          IF masks[idx][p] = 0 /\ masks[g][p] = 0
                            THEN planes'[idx][p] = planes[idx][p]
                            ELSE planes'[idx][p] =
                                   blendedPixel(IF masks[g][p] # 0 THEN masks[g][p]
                                                ELSE masks[idx][p],
                                                planes[idx], planes[g], p)
      ]_vars

\* a blend into a target whose mask and the good image's mask are both painted
\* on a pixel, with different alpha, and both clear on another pixel
C19_Witness ==
    /\ blended
    /\ \E idx \in DOMAIN planes \ {antiGhosting.goodImageIndex},
          p \in DOMAIN masks[0], q \in DOMAIN masks[0] :
          /\ masks[idx][p] # 0
          /\ masks[antiGhosting.goodImageIndex][p] # 0
          /\ masks[idx][p] # masks[antiGhosting.goodImageIndex][p]
          /\ masks[idx][q] = 0
          /\ masks[antiGhosting.goodImageIndex][q] = 0
          /\ planes[idx][p] # planes[idx][q]

\* the source pixel at p with its lightness (value) scaled by
\* avgLightness(target) / avgLightness(source) and clamped
scaledSourcePixel(img1, img2, p) ==
    IF inputType = "LDR"
      THEN LET width == ldrImagesList[0].width
               height == ldrImagesList[0].height
           IN  hsvScaled(img2[p], RDiv(averageLightnessQImage(img1, width, height),
                                       averageLightnessQImage(img2, width, height)))
      ELSE LET width == listmdrR[0].width
               height == listmdrR[0].height
           IN  scaledSource(img2[p],
                            RDiv(averageLightness(img1, width, height),
                                 averageLightness(img2, width, height)),
                            RMax(maxLightness(img1, width, height),
                                 maxLightness(img2, width, height)))

\* channel value r is (1 - a/255)*t + (a/255)*s: exactly for float planes, to
\* the nearest integers for 8-bit channels
interpolated(r, a, t, s) ==
    IF inputType = "LDR"
      THEN /\ 255 * (r - 1) < (255 - a) * t + a * s
           /\ (255 - a) * t + a * s < 255 * (r + 1)
      ELSE /\ r = lerp(a, t, s)
           /\ RLeq(Zero, r)
           /\ RLeq(r, Whole(max_rgb))

\* C20 (as stated): where a mask has alpha other than 0, every channel of the
\* blended target pixel is (1-alpha)*target + alpha*scaledSource, in 8-bit
\* images as in float planes, and stays in its range.
C20_BlendInterpolation ==
    [][ antiGhosting'.run =>
          LET g == antiGhosting'.goodImageIndex
          IN  \A idx \in DOMAIN planes \ {g}, p \in DOMAIN planes[g] :
                 (masks[idx][p] # 0 \/ masks[g][p] # 0) =>
                    LET a == IF masks[g][p] # 0 THEN masks[g][p] ELSE masks[idx][p]
                        s2 == scaledSourcePixel(planes[idx], planes[g], p)
                    IN  \A c \in 1 .. 3 :
                           interpolated(planes'[idx][p][c], a, planes[idx][p][c], s2[c])
      ]_vars

\* the same for float planes alone
BlendInterpolationMDR ==
    [][ (antiGhosting'.run /\ inputType = "MDR") =>
          LET g == antiGhosting'.goodImageIndex
          IN  \A idx \in DOMAIN planes \ {g}, p \in DOMAIN planes[g] :
                 (masks[idx][p] # 0 \/ masks[g][p] # 0) =>
                    LET a == IF masks[g][p] # 0 THEN masks[g][p] ELSE masks[idx][p]
                        s2 == scaledSourcePixel(planes[idx], planes[g], p)
                    IN  \A c \in 1 .. 3 :
                           interpolated(planes'[idx][p][c], a, planes[idx][p][c], s2[c])
      ]_vars

\* ------------------------------------------------------------ colour space
\* max and min of the channels of the pixel converted, and its lightness
valueOfC == RMax(RMax(conversion.c[1], conversion.c[2]), conversion.c[3])
minvOfC == RMin(RMin(conversion.c[1], conversion.c[2]), conversion.c[3])
lightnessOfC == RDiv(RAdd(valueOfC, minvOfC), Whole(2))

\* C21 (as stated): for a pixel with lightness > 0 and max - min > 0
\* hsl2rgb(rgb2hsl(c)) is c; for a pixel with lightness <= 0 or max = min
\* rgb2hsl returns hue 0 and saturation 0 and the round trip returns a pixel of
\* the original lightness.
C21_RoundTrip ==
    conversion.stage = "back" =>
       IF RLess(Zero, lightnessOfC) /\ RLess(minvOfC, valueOfC)
         THEN conversion.rgb = conversion.c
         ELSE /\ conversion.hsl.h = Zero
              /\ conversion.hsl.s = Zero
              /\ rgb2hsl(conversion.rgb[1], conversion.rgb[2], conversion.rgb[3]).l
                    = lightnessOfC

\* C22 (as stated): the hue rgb2hsl returns is in [0, 1), so that the sextant
\* of hsl2rgb is one of 0 .. 5.
C22_HueBelowOne ==
    conversion.stage \in {"hsl", "back"} =>
       /\ RLeq(Zero, conversion.hsl.h)
       /\ RLess(conversion.hsl.h, One)
       /\ Trunc(RMul(conversion.hsl.h, Whole(6))) \in 0 .. 5

\* the round trip of the pixels whose hue is below 1 and whose max + min is
\* not 2
RoundTripElsewhere ==
    (/\ conversion.stage = "back"
     /\ RLess(Zero, lightnessOfC)
     /\ RLess(minvOfC, valueOfC)
     /\ RLess(conversion.hsl.h, One)
     /\ RAdd(valueOfC, minvOfC) # Whole(2))
       => conversion.rgb = conversion.c

\* ---------------------------------------------------------------- cropping
\* C26 (as stated): every item in the set has a ghost mask at its index, of
\* the width and height of the item's planes and of its preview, also after
\* cropLDR and cropMDR.
C26_GhostMaskInvariant ==
    \A i \in Idx :
       /\ ~ldrImagesList[i].null =>
             /\ ~antiGhostingMasksList[i].null
             /\ antiGhostingMasksList[i].width = ldrImagesList[i].width
             /\ antiGhostingMasksList[i].height = ldrImagesList[i].height
       /\ ~listmdrR[i].null =>
             /\ ~antiGhostingMasksList[i].null
             /\ antiGhostingMasksList[i].width = listmdrR[i].width
             /\ antiGhostingMasksList[i].height = listmdrR[i].height
             /\ ~mdrImagesList[i].null
             /\ mdrImagesList[i].width = listmdrR[i].width
             /\ mdrImagesList[i].height = listmdrR[i].height

\* the same for the sets that are not loaded from the command line and have
\* not been cropped by cropMDR
GhostMaskInteractive ==
    (~fromCommandLine /\ lastOp # "cropMDR") => C26_GhostMaskInvariant

\* cropMDR leaves the planes one pixel narrower and lower than the masks
\* and the previews
CropMDROffByOne ==
    (lastOp = "cropMDR") =>
        \A i \in Idx :
           /\ antiGhostingMasksList[i].width = listmdrR[i].width + 1
           /\ antiGhostingMasksList[i].height = listmdrR[i].height + 1
           /\ mdrImagesList[i].width = antiGhostingMasksList[i].width
           /\ mdrImagesList[i].height = antiGhostingMasksList[i].height
           /\ antiGhostingMasksList[i].alpha = 0

\* ------------------------------------------------- missing exposure times
\* the slot of index i holds an item
loaded(i) == ~ldrImagesList[i].null \/ ~listmdrR[i].null

\* the entries of list ascend
ascending(list) == \A a \in DOMAIN list, b \in DOMAIN list : a < b => list[a] < list[b]

\* an arrival of item i that the slot accepts: no message is raised
accepted(i) ==
    /\ lastOp' \in {"mdrReady", "ldrReady"}
    /\ i \in pending /\ i \notin pending'
    /\ ~m_loadingError /\ ~m_loadingError'

\* what an accepted arrival of item i does with filesLackingExif: an item
\* without exposure time is stored and gets one entry at the end
deferred(i) ==
    accepted(i) =>
       /\ loaded(i)'
       /\ raised' = raised
       /\ IF expotimes'[i] = NoExpotime
            THEN filesLackingExif' = Append(filesLackingExif, i)
            ELSE filesLackingExif' = filesLackingExif

\* C28 (as stated): an item that arrives without exposure time is stored
\* without error and gets one entry at the end of filesLackingExif, and when
\* every item of the batch has arrived the entries ascend by item index.
C28_MissingAscending ==
    [][ /\ \A i \in Idx : deferred(i)
        /\ pending' = {} => ascending(filesLackingExif') ]_vars

\* C28: an item that arrives without exposure time is stored without error
\* and gets one entry at the end of filesLackingExif, so the entries are in
\* the order of arrival: each stored item without exposure time has one
\* entry.
C28_MissingInArrivalOrder ==
    [][ /\ \A i \in Idx : deferred(i)
        /\ \A i \in Idx :
              Cardinality({ k \in DOMAIN filesLackingExif' : filesLackingExif'[k] = i })
                 = IF loaded(i)' /\ expotimes'[i] = NoExpotime THEN 1 ELSE 0 ]_vars

\* every item of the batch has arrived without error, and two items without
\* exposure time arrived against the order of their indices
C28_Witness ==
    /\ pending = {}
    /\ ~m_loadingError
    /\ \E a \in DOMAIN filesLackingExif, b \in DOMAIN filesLackingExif :
          a < b /\ filesLackingExif[a] > filesLackingExif[b]
    /\ \A i \in Idx : loaded(i)

\* the loaded items that have no exposure time
lackingExif == { i \in Idx : loaded(i) /\ expotimes[i] = NoExpotime }

\* C30 (as stated): filesLackingExif has as many entries as there are loaded
\* items without exposure time, so it is empty exactly when every loaded
\* item has one.
C30_MissingCount ==
    /\ Len(filesLackingExif) = Cardinality(lackingExif)
    /\ filesLackingExif = <<>> <=> lackingExif = {}

\* the count is kept by every arrival and by every setEV on a loaded item
MissingCountKept ==
    [][ (C30_MissingCount /\ ~(lastOp' = "setEV" /\ ~loaded(sig'[1].idx)))
            => C30_MissingCount' ]_vars

\* ------------------------------------------------------------- input type
\* the kind of item the slot that ran last accepts
kindOf(op) == IF op = "mdrReady" THEN "MDR" ELSE "LDR"

\* C25: inputType changes only from UNKNOWN to LDR or to MDR; an item that
\* arrives without error while the type is UNKNOWN gives it its kind, an
\* arrival that ends in error leaves UNKNOWN as it is, and LDR or MDR never
\* change again.
C25_InputTypeWriteOnce ==
    [][ /\ inputType' # inputType =>
              inputType = "UNKNOWN" /\ inputType' \in {"LDR", "MDR"}
        /\ (inputType = "UNKNOWN" /\ lastOp' \in {"mdrReady", "ldrReady"}
                /\ ~m_loadingError') => inputType' = kindOf(lastOp')
        /\ (inputType = "UNKNOWN" /\ m_loadingError') => inputType' = "UNKNOWN"
      ]_vars

\* an MDR item arrived after the type was fixed to LDR and was turned down
C25_Witness ==
    /\ inputType = "LDR"
    /\ lastOp = "mdrReady"
    /\ "type" \in raised
    /\ \E i \in Idx : ~ldrImagesList[i].null

\* ---------------------------------------------------------------- alignment
\* the alignment processes whose child is running
running == { p \in DOMAIN processes : processes[p].state = "Running" /\ ~processes[p].exited }

\* C23 (as stated): at most one alignment child process runs at any time.
C23_SingleAlignment == Cardinality(running) <= 1

\* C24 (as stated): every end of an alignment child process leads to one
\* finishedAligning event for it.
C24_CompletionEvent ==
    \A p \in 1 .. MaxProcs :
       (p \in DOMAIN processes /\ processes[p].exited)
          ~> (p \in DOMAIN processes /\ processes[p].finishedAligning = 1)

\* handling the end of a process leaves the stored items, their exposure
\* times and the input type as they were, and emits finishedAligning at most
\* once
AisFrame ==
    [][ lastOp' = "ais_finished" =>
          /\ UNCHANGED slotVars
          /\ UNCHANGED m_data
          /\ \A p \in DOMAIN processes : processes'[p].finishedAligning <= 1
      ]_vars

====
